---- MODULE Spec2Model ----
(***************************************************************************)
(* Authorization and tenant-cache subsystem of CloudflareManager           *)
(* (src/handlers.py, src/models.py, src/bot.py).                           *)
(*                                                                         *)
(* The tenant store and BotConfig are the two database tables, the cache   *)
(* and the in-memory super admin are fields of the CloudflareManager       *)
(* object, and the Cloudflare API is an environment that answers every     *)
(* call with either an exception or a page of results.                     *)
(***************************************************************************)
EXTENDS Integers, Sequences, FiniteSets, Bags, TLC

VARIABLES
    super_admin_id,   \* self.super_admin_id: None, "" or a string
    bot_config,       \* table bot_config: key -> value
    tenants,          \* table tenants: row i is the tenant with id i
    tenants_cache,    \* self.tenants_cache: tenant id -> cache entry
    dialect,          \* database backend selected by DATABASE_URL
    last,             \* the last operation: its arguments and what it returned
    calls,            \* coroutines suspended at an await: their locals
    history,          \* what the completed steps of those coroutines did
    current_tenant_id,  \* src/main.py self.current_tenant_id: 0 is None
    conversations     \* src/main.py: user -> conversation state and user_data

vars ==
    <<super_admin_id, bot_config, tenants, tenants_cache, dialect, last, calls,
      history, current_tenant_id, conversations>>

-----------------------------------------------------------------------------
(* Bounds of the model *)

NumUsers == 2
MaxTenants == 2
MaxZones == 2
MaxTunnels == 1
MaxInFlight == 2

-----------------------------------------------------------------------------
(* Values *)

None == "None"

Users == 1..NumUsers

\* str(user_id)
str(n) == ToString(n)

AdminIds == {str(u) : u \in Users}

TenantNames == {"acme", "globex", "initech"}

Tokens == {"tokA"}

\* `tenant_id: int | None = None`: the argument left out
Omitted == -1

\* src/main.py `self.current_tenant_id: Optional[int] = None`: no tenant is
\* current.  Row ids start at 1 and `if not self.current_tenant_id` takes None
\* and 0 alike
NoCurrentTenant == 0

\* tenant ids a caller may pass: none, 0, the ids in use, and one unknown id
TenantIdArgs == {Omitted} \cup 0..(MaxTenants + 1)

\* `if tenant_id:` -- None and 0 are both falsy
Given(tenant_id) == tenant_id # Omitted /\ tenant_id # 0

\* tenant ids a command or a refresh is given: the ids in use and one unknown id
TenantIdsNamed == 1..(MaxTenants + 1)

\* callers of get_tenants: the users and "no caller" (0)
CallerArgs == 0..NumUsers

\* the database backends of the connection strings the bot is run with
Dialects == {"sqlite", "postgresql"}

\* bot.py wires the session factory into the bot before any handler runs
SessionLocal == TRUE

\* Python truthiness of an optional string
Truthy(x) == x \notin {None, ""}

\* dict helpers: a dict is a function with a finite domain, {} is <<>>
EmptyDict == <<>>

DictPut(d, k, v) == [x \in (DOMAIN d) \cup {k} |-> IF x = k THEN v ELSE d[x]]

DictDel(d, k) == [x \in (DOMAIN d) \ {k} |-> d[x]]

DictValues(d) == {d[k] : k \in DOMAIN d}

\* the lists of at most n distinct elements of S
SeqsUpTo(S, n) ==
    UNION {{l \in [1..k -> S] : \A i, j \in 1..k : l[i] = l[j] => i = j} : k \in 0..n}

-----------------------------------------------------------------------------
(* Tenant store *)

Tenant(id, name, token, admin, active) ==
    [id |-> id, name |-> name, cloudflare_token |-> token,
     admin_user_id |-> admin, is_active |-> active]

\* WHERE is_active = 'true' in a text() query, against the Boolean column of
\* models.py.  PostgreSQL reads the literal as a boolean.  SQLite stores the
\* Boolean as the integer 1 or 0 and an integer never equals the text 'true'.
is_active_eq_true(v) ==
    IF dialect = "postgresql" THEN v = TRUE ELSE FALSE

\* a listing query without the is_active condition
is_active_ignored(v) == v \in BOOLEAN

\* Tenant.is_active.is_(True) in an ORM query: IS true / IS 1
is_active_is_true(v) == v = TRUE

TenantIds == DOMAIN tenants

\* None as the result of a lookup that found no row
NoTenant == [id |-> 0]

get_tenant_by_id(tenant_id) ==
    IF ~SessionLocal THEN NoTenant
    ELSE IF tenant_id \in TenantIds THEN tenants[tenant_id] ELSE NoTenant

-----------------------------------------------------------------------------
(* Authorization service.  is_super_admin may write: the operators return  *)
(* the value returned together with the fields after the call.             *)

set_config(cfg, key, value) ==
    IF ~SessionLocal THEN cfg ELSE DictPut(cfg, key, value)

\* a first-time setup that answers True without recording the caller
is_super_admin_unrecorded(user_id, mem, cfg) ==
    IF ~Truthy(mem)
    THEN IF ~SessionLocal
         THEN [ret |-> FALSE, mem |-> mem, cfg |-> cfg]
         ELSE IF "super_admin_id" \in DOMAIN cfg
              THEN [ret |-> (str(user_id) = cfg["super_admin_id"]),
                    mem |-> cfg["super_admin_id"], cfg |-> cfg]
              ELSE [ret |-> TRUE, mem |-> mem, cfg |-> cfg]
    ELSE [ret |-> (str(user_id) = mem), mem |-> mem, cfg |-> cfg]

is_super_admin(user_id, mem, cfg) ==
    IF ~Truthy(mem)
    THEN IF ~SessionLocal
         THEN [ret |-> FALSE, mem |-> mem, cfg |-> cfg]
         ELSE IF "super_admin_id" \in DOMAIN cfg
              THEN [ret |-> (str(user_id) = cfg["super_admin_id"]),
                    mem |-> cfg["super_admin_id"], cfg |-> cfg]
              ELSE [ret |-> TRUE, mem |-> str(user_id),
                    cfg |-> set_config(cfg, "super_admin_id", str(user_id))]
    ELSE [ret |-> (str(user_id) = mem), mem |-> mem, cfg |-> cfg]

is_tenant_admin(user_id, tenant_id) ==
    IF ~SessionLocal THEN FALSE
    ELSE IF Given(tenant_id)
         THEN \E i \in TenantIds :
                 /\ i = tenant_id
                 /\ is_active_eq_true(tenants[i].is_active)
                 /\ tenants[i].admin_user_id = str(user_id)
         ELSE Cardinality({i \in TenantIds :
                              /\ tenants[i].admin_user_id = str(user_id)
                              /\ is_active_eq_true(tenants[i].is_active)}) > 0

\* an access check that asks for tenant administration only
has_access_without_dominance(user_id, tenant_id, mem, cfg) ==
    LET s == is_super_admin(user_id, mem, cfg) IN
    [ret |-> is_tenant_admin(user_id, tenant_id), mem |-> s.mem, cfg |-> s.cfg]

has_access(user_id, tenant_id, mem, cfg) ==
    LET s == is_super_admin(user_id, mem, cfg) IN
    IF s.ret THEN [ret |-> TRUE, mem |-> s.mem, cfg |-> s.cfg]
    ELSE IF Given(tenant_id)
         THEN [ret |-> is_tenant_admin(user_id, tenant_id), mem |-> s.mem, cfg |-> s.cfg]
         ELSE [ret |-> is_tenant_admin(user_id, Omitted), mem |-> s.mem, cfg |-> s.cfg]

\* a listing that shows every active tenant to every caller
get_tenants_unfiltered(user_id, mem, cfg) ==
    LET s == IF user_id # 0 THEN is_super_admin(user_id, mem, cfg)
             ELSE [ret |-> FALSE, mem |-> mem, cfg |-> cfg]
    IN
    [ret |-> SelectSeq(tenants, LAMBDA t : is_active_is_true(t.is_active)),
     mem |-> s.mem, cfg |-> s.cfg]

\* `if user_id and ...` -- no caller given (None) is written 0
get_tenants(user_id, mem, cfg) ==
    IF ~SessionLocal THEN [ret |-> <<>>, mem |-> mem, cfg |-> cfg]
    ELSE IF user_id # 0
         THEN LET s == is_super_admin(user_id, mem, cfg) IN
              IF ~s.ret
              THEN [ret |-> SelectSeq(tenants, LAMBDA t :
                                /\ t.admin_user_id = str(user_id)
                                /\ is_active_is_true(t.is_active)),
                    mem |-> s.mem, cfg |-> s.cfg]
              ELSE [ret |-> SelectSeq(tenants, LAMBDA t : is_active_is_true(t.is_active)),
                    mem |-> s.mem, cfg |-> s.cfg]
         ELSE [ret |-> SelectSeq(tenants, LAMBDA t : is_active_is_true(t.is_active)),
               mem |-> mem, cfg |-> cfg]

-----------------------------------------------------------------------------
(* Remote resource gateway: the answers of the Cloudflare API.  A call     *)
(* either raises or returns a page whose .result is a list.                *)

Zone(id, name, account) == [id |-> id, name |-> name, account |-> account]

\* the zones of the account: one domain added under two accounts (two ids,
\* one name), two objects answering to one id, and zones whose shape exposes
\* no account
ZoneObjs ==
    { Zone("z1", "acme.com", "acc1"),
      Zone("z2", "acme.com", None),
      Zone("z1", "acme.net", None) }

TunnelObjs == { [id |-> "t1", name |-> "office"] }

AccountObjs == { "acc2" }

Raised == [status |-> "raised", result |-> <<>>]

NotCalled == [status |-> "not_called", result |-> <<>>]

Page(items) == [status |-> "ok", result |-> items]

\* cf.zones.list: a client built with an empty token cannot authenticate
ZoneAnswers(token) ==
    IF token = "" THEN {Raised}
    ELSE {Raised} \cup {Page(l) : l \in SeqsUpTo(ZoneObjs, MaxZones)}

\* cf.accounts.list
AccountAnswers == {Raised} \cup {Page(l) : l \in SeqsUpTo(AccountObjs, 1)}

\* cf.zero_trust.tunnels.list
TunnelAnswers == {Raised} \cup {Page(l) : l \in SeqsUpTo(TunnelObjs, MaxTunnels)}

-----------------------------------------------------------------------------
(* Tenant cache: refresh_tenant_domains                                    *)

\* lines 160-169: the account of the first zone of the page
account_id_from_zones(zones) ==
    IF zones.result # <<>>
    THEN LET zone == zones.result[1] IN
         IF Truthy(zone.account) THEN zone.account ELSE None
    ELSE None

\* lines 171-178: the first account; a failure is logged and swallowed
account_id_from_accounts(accounts) ==
    IF accounts.status = "raised" THEN None
    ELSE IF accounts.result # <<>> THEN accounts.result[1] ELSE None

\* lines 180-192: a failure is logged and tunnels stays []
tunnels_fetched(tunnels) ==
    IF tunnels.status = "ok" THEN tunnels ELSE Page(<<>>)

\* lines 198-220: zones.result when it is non-empty, else list(zones)
list_of(page) ==
    IF page.result # <<>> THEN page.result ELSE <<>>

\* an id index that keeps the first zone of an id (setdefault)
RECURSIVE zones_dict_first_wins(_)
zones_dict_first_wins(zones_list) ==
    IF zones_list = <<>> THEN EmptyDict
    ELSE LET rest == zones_dict_first_wins(SubSeq(zones_list, 2, Len(zones_list))) IN
         DictPut(rest, zones_list[1].id, zones_list[1])

\* lines 226-229, zones_dict[zone.id] = zone
RECURSIVE zones_dict_of(_)
zones_dict_of(zones_list) ==
    IF zones_list = <<>> THEN EmptyDict
    ELSE LET n == Len(zones_list) IN
         DictPut(zones_dict_of(SubSeq(zones_list, 1, n - 1)),
                 zones_list[n].id, zones_list[n])

\* a name index that keeps the first zone of a name (setdefault)
RECURSIVE domains_dict_first_wins(_)
domains_dict_first_wins(zones_list) ==
    IF zones_list = <<>> THEN EmptyDict
    ELSE LET rest == domains_dict_first_wins(SubSeq(zones_list, 2, Len(zones_list))) IN
         DictPut(rest, zones_list[1].name, zones_list[1])

\* lines 226-229, domains_dict[zone.name] = zone
RECURSIVE domains_dict_of(_)
domains_dict_of(zones_list) ==
    IF zones_list = <<>> THEN EmptyDict
    ELSE LET n == Len(zones_list) IN
         DictPut(domains_dict_of(SubSeq(zones_list, 1, n - 1)),
                 zones_list[n].name, zones_list[n])

\* lines 231-233, tunnels_dict[tunnel.id] = tunnel
RECURSIVE tunnels_dict_of(_)
tunnels_dict_of(tunnels_list) ==
    IF tunnels_list = <<>> THEN EmptyDict
    ELSE LET n == Len(tunnels_list) IN
         DictPut(tunnels_dict_of(SubSeq(tunnels_list, 1, n - 1)),
                 tunnels_list[n].id, tunnels_list[n])

\* a commit that merges: when this refresh found no tunnels, the tunnels of
\* the entry it replaces are kept
store_entry_keeps_tunnels(cache, tenant_id, tenant, zones_list, tunnels_list, account_id) ==
    DictPut(cache, tenant_id,
            [tenant |-> tenant,
             domains |-> domains_dict_of(zones_list),
             zones |-> zones_dict_of(zones_list),
             tunnels |-> IF tunnels_list = <<>> /\ tenant_id \in DOMAIN cache
                         THEN cache[tenant_id].tunnels
                         ELSE tunnels_dict_of(tunnels_list),
             account_id |-> account_id])

\* a commit that starts the cache afresh: the entries of the other tenants go
store_entry_alone(cache, tenant_id, tenant, zones_list, tunnels_list, account_id) ==
    DictPut(EmptyDict, tenant_id,
            [tenant |-> tenant,
             domains |-> domains_dict_of(zones_list),
             zones |-> zones_dict_of(zones_list),
             tunnels |-> tunnels_dict_of(tunnels_list),
             account_id |-> account_id])

\* a commit that updates the domains of the entry in place instead of
\* replacing them
store_entry_updating_domains(cache, tenant_id, tenant, zones_list, tunnels_list, account_id) ==
    LET new == domains_dict_of(zones_list)
        old == IF tenant_id \in DOMAIN cache THEN cache[tenant_id].domains
               ELSE EmptyDict
    IN
    DictPut(cache, tenant_id,
            [tenant |-> tenant,
             domains |-> [n \in DOMAIN old \cup DOMAIN new |->
                            IF n \in DOMAIN new THEN new[n] ELSE old[n]],
             zones |-> zones_dict_of(zones_list),
             tunnels |-> tunnels_dict_of(tunnels_list),
             account_id |-> account_id])

\* lines 235-241: the entry is assigned whole
store_entry(cache, tenant_id, tenant, zones_list, tunnels_list, account_id) ==
    DictPut(cache, tenant_id,
            [tenant |-> tenant,
             domains |-> domains_dict_of(zones_list),
             zones |-> zones_dict_of(zones_list),
             tunnels |-> tunnels_dict_of(tunnels_list),
             account_id |-> account_id])

\* a failure handler that drops the tenant's entry before re-raising
cache_dropped_on_listing_failure(cache, tenant_id) == DictDel(cache, tenant_id)

\* lines 248-250: log and re-raise, the cache is not touched
cache_after_listing_failure(cache, tenant_id) == cache

\* lines 152-154: `if not tenant: return`
tenant_resolves(tenant) == tenant # NoTenant

\* an account resolution without the accounts listing as a fallback
resolved_account_id_from_zone_only(zones, accounts) ==
    account_id_from_zones(zones)

\* the account the tunnels are listed for
resolved_account_id(zones, accounts) ==
    IF Truthy(account_id_from_zones(zones)) THEN account_id_from_zones(zones)
    ELSE account_id_from_accounts(accounts)

\* a refresh whose tunnel listing shares the try block of the zone listing:
\* a tunnel failure aborts the refresh
refresh_aborts_on_tunnel_failure(cache, tenant_id, tenant, zones, accounts, tunnels) ==
    IF ~tenant_resolves(tenant)
    THEN [outcome |-> "returned", cache |-> cache]
    ELSE IF zones.status = "raised" \/ tunnels.status = "raised"
    THEN [outcome |-> "raised",
          cache |-> cache_after_listing_failure(cache, tenant_id)]
    ELSE [outcome |-> "committed",
          cache |-> store_entry(cache, tenant_id, tenant, list_of(zones),
                                list_of(tunnels_fetched(tunnels)),
                                resolved_account_id(zones, accounts))]

\* a refresh that treats an unknown tenant as an error
refresh_raises_on_unknown_tenant(cache, tenant_id, tenant, zones, accounts, tunnels) ==
    IF ~tenant_resolves(tenant)
    THEN [outcome |-> "raised", cache |-> cache]
    ELSE IF zones.status = "raised"
    THEN [outcome |-> "raised",
          cache |-> cache_after_listing_failure(cache, tenant_id)]
    ELSE [outcome |-> "committed",
          cache |-> store_entry(cache, tenant_id, tenant, list_of(zones),
                                list_of(tunnels_fetched(tunnels)),
                                resolved_account_id(zones, accounts))]

\* the whole method, given the answers of the calls it makes
refresh_tenant_domains(cache, tenant_id, tenant, zones, accounts, tunnels) ==
    IF ~tenant_resolves(tenant)
    THEN [outcome |-> "returned", cache |-> cache]
    ELSE IF zones.status = "raised"
    THEN [outcome |-> "raised",
          cache |-> cache_after_listing_failure(cache, tenant_id)]
    ELSE [outcome |-> "committed",
          cache |-> store_entry(cache, tenant_id, tenant, list_of(zones),
                                list_of(tunnels_fetched(tunnels)),
                                resolved_account_id(zones, accounts))]

\* the calls the method makes, and the answers it can get
RefreshAnswers(tenant) ==
    IF ~tenant_resolves(tenant)
    THEN {[zones |-> NotCalled, accounts |-> NotCalled, tunnels |-> NotCalled]}
    ELSE UNION {
      IF z.status = "raised"
      THEN {[zones |-> z, accounts |-> NotCalled, tunnels |-> NotCalled]}
      ELSE UNION {
        {[zones |-> z, accounts |-> a, tunnels |-> t] :
            t \in IF Truthy(resolved_account_id(z, a))
                  THEN TunnelAnswers ELSE {NotCalled}}
        : a \in IF Truthy(account_id_from_zones(z))
                THEN {NotCalled} ELSE AccountAnswers}
      : z \in ZoneAnswers(tenant.cloudflare_token)}

RefreshTenantDomains(tenant_id) ==
    LET tenant == get_tenant_by_id(tenant_id) IN
    \E ans \in RefreshAnswers(tenant) :
        LET r == refresh_tenant_domains(tenants_cache, tenant_id, tenant,
                                        ans.zones, ans.accounts, ans.tunnels) IN
        /\ tenants_cache' = r.cache
        /\ last' = [op |-> "refresh_tenant_domains", tenant_id |-> tenant_id,
                    outcome |-> r.outcome,
                    had_entry |-> (tenant_id \in DOMAIN tenants_cache),
                    zones |-> ans.zones, accounts |-> ans.accounts,
                    tunnels |-> ans.tunnels]
        /\ UNCHANGED <<super_admin_id, bot_config, tenants, dialect>>
        /\ UNCHANGED <<current_tenant_id, conversations>>
        /\ UNCHANGED <<calls, history>>

\* the answers to the refresh of a tenant whose account holds one zone at most
SmallAccountAnswers(tenant) ==
    {a \in RefreshAnswers(tenant) : Len(a.zones.result) <= 1}

\* refresh_tenant_domains against accounts that hold one zone at most
RefreshSmallAccount(tenant_id) ==
    LET tenant == get_tenant_by_id(tenant_id) IN
    \E ans \in SmallAccountAnswers(tenant) :
        LET r == refresh_tenant_domains(tenants_cache, tenant_id, tenant,
                                        ans.zones, ans.accounts, ans.tunnels) IN
        /\ tenants_cache' = r.cache
        /\ last' = [op |-> "refresh_tenant_domains", tenant_id |-> tenant_id,
                    outcome |-> r.outcome,
                    had_entry |-> (tenant_id \in DOMAIN tenants_cache),
                    zones |-> ans.zones, accounts |-> ans.accounts,
                    tunnels |-> ans.tunnels]
        /\ UNCHANGED <<super_admin_id, bot_config, tenants, dialect, calls,
                       history, current_tenant_id, conversations>>

-----------------------------------------------------------------------------
(* Command handlers that write the store or the cache                      *)

\* the numbers a command argument can spell
ArgNumbers == 0..(MaxTenants + NumUsers + 1)

\* str.isdigit() on a command argument
isdigit(s) == \E n \in ArgNumbers : str(n) = s

\* int() on an argument that passed isdigit()
int(s) == CHOOSE n \in ArgNumbers : str(n) = s

\* a validation that accepts every token
validate_cf_token_accepting(answer) == TRUE

\* validate_cf_token: the token is valid iff a zone listing with it succeeds
validate_cf_token(answer) == answer.status # "raised"

\* lines 627-637: the token is written to the tenant's row
save_token(store, tenant_id, api_token) ==
    [store EXCEPT ![tenant_id].cloudflare_token = api_token]

\* a connect that forgets to drop the cached data
clear_cached_never(cache, tenant_id) == cache

\* lines 639-641: the tenant's entry is removed when there is one
clear_cached(cache, tenant_id) ==
    IF tenant_id \in DOMAIN cache THEN DictDel(cache, tenant_id) ELSE cache

\* /connect_cf <tenant_id> [api_token]; answer is what the API says to the
\* validation call
connect_cf_command(user_id, args, answer) ==
    LET same(outcome, mem, cfg) ==
            [outcome |-> outcome, mem |-> mem, cfg |-> cfg,
             tenants |-> tenants, cache |-> tenants_cache, deleted |-> FALSE,
             tenant_id |-> IF args # <<>> /\ isdigit(args[1]) THEN int(args[1]) ELSE 0]
    IN
    IF args = <<>> THEN same("usage", super_admin_id, bot_config)
    ELSE IF ~isdigit(args[1]) THEN same("bad_id", super_admin_id, bot_config)
    ELSE LET tenant_id == int(args[1])
             acc == has_access(user_id, tenant_id, super_admin_id, bot_config)
             tenant == get_tenant_by_id(tenant_id)
         IN
         IF ~acc.ret THEN same("denied", acc.mem, acc.cfg)
         ELSE IF tenant = NoTenant THEN same("not_found", acc.mem, acc.cfg)
         ELSE IF Len(args) > 1
         THEN IF ~validate_cf_token(answer)
              THEN same("invalid_token", acc.mem, acc.cfg)
              ELSE IF ~SessionLocal THEN same("no_database", acc.mem, acc.cfg)
              ELSE [outcome |-> "connected", mem |-> acc.mem, cfg |-> acc.cfg,
                    tenants |-> save_token(tenants, tenant_id, args[2]),
                    cache |-> clear_cached(tenants_cache, tenant_id),
                    deleted |-> (tenant_id \in DOMAIN tenants_cache),
                    tenant_id |-> tenant_id]
         ELSE same("instructions", acc.mem, acc.cfg)

\* the arguments of /connect_cf that name a tenant, with or without a token
ConnectArgs ==
    {<<str(t)>> : t \in TenantIdsNamed}
    \cup {<<str(t), tok>> : t \in TenantIdsNamed, tok \in Tokens}

\* the outcomes of a command that got as far as line 608 and validated the
\* token it was given
ValidatedOutcomes == {"invalid_token", "no_database", "connected"}

ConnectCfCommand(user_id, args) ==
    \E answer \in IF Len(args) > 1 THEN {Raised, Page(<<>>)} ELSE {NotCalled} :
        LET r == connect_cf_command(user_id, args, answer) IN
        /\ super_admin_id' = r.mem
        /\ bot_config' = r.cfg
        /\ tenants' = r.tenants
        /\ tenants_cache' = r.cache
        /\ last' = [op |-> "connect_cf_command", user_id |-> user_id,
                    tenant_id |-> r.tenant_id, outcome |-> r.outcome,
                    deleted |-> r.deleted,
                    listing |-> IF r.outcome \in ValidatedOutcomes
                                THEN answer.status ELSE NotCalled.status]
        /\ UNCHANGED dialect
        /\ UNCHANGED <<current_tenant_id, conversations>>
        /\ UNCHANGED <<calls, history>>

\* lines 521-528: the rows that carry the name
rows_named(store, tenant_name) ==
    {i \in DOMAIN store : store[i].name = tenant_name}

\* lines 531-541: the new row, with the next id
insert_tenant(store, tenant_name, admin_user_id) ==
    Append(store, Tenant(Len(store) + 1, tenant_name, "", admin_user_id, TRUE))

\* /add_tenant <name> <admin_user_id>
add_tenant_command(user_id, args) ==
    LET s == is_super_admin(user_id, super_admin_id, bot_config)
        same(outcome) ==
            [outcome |-> outcome, mem |-> s.mem, cfg |-> s.cfg, tenants |-> tenants]
    IN
    IF ~s.ret THEN same("denied")
    ELSE IF Len(args) < 2 THEN same("usage")
    ELSE IF ~isdigit(args[2]) THEN same("bad_admin")
    ELSE IF ~SessionLocal THEN same("no_database")
    ELSE IF Cardinality(rows_named(tenants, args[1])) > 1 THEN same("failed")
    ELSE IF Cardinality(rows_named(tenants, args[1])) = 1 THEN same("exists")
    ELSE [outcome |-> "created", mem |-> s.mem, cfg |-> s.cfg,
          tenants |-> insert_tenant(tenants, args[1], args[2])]

\* the arguments of /add_tenant
AddTenantArgs ==
    {<<>>} \cup {<<n, a>> : n \in TenantNames, a \in AdminIds \cup {"x"}}

\* the autoincrement id is capped: a store that is full takes no new command
AddTenantCommand(user_id, args) ==
    /\ Len(tenants) < MaxTenants
    /\ LET r == add_tenant_command(user_id, args) IN
       /\ super_admin_id' = r.mem
       /\ bot_config' = r.cfg
       /\ tenants' = r.tenants
       /\ last' = [op |-> "add_tenant_command", user_id |-> user_id,
                   args |-> args, outcome |-> r.outcome]
    /\ UNCHANGED <<tenants_cache, dialect>>
    /\ UNCHANGED <<current_tenant_id, conversations>>
    /\ UNCHANGED <<calls, history>>

-----------------------------------------------------------------------------
(* /refresh: every tenant the caller is shown is refreshed in turn          *)

\* a loop that gives up at the first refresh that raises
RECURSIVE refresh_each_until_raise(_, _, _)
refresh_each_until_raise(cache, rows, answers) ==
    IF rows = <<>> THEN [cache |-> cache, refreshed_count |-> 0, raised |-> {}]
    ELSE LET tenant_id == rows[1].id
             r == refresh_tenant_domains(cache, tenant_id, get_tenant_by_id(tenant_id),
                                         answers[1].zones, answers[1].accounts,
                                         answers[1].tunnels)
             rest == refresh_each_until_raise(r.cache, Tail(rows), Tail(answers))
         IN
         IF r.outcome = "raised"
         THEN [cache |-> r.cache, refreshed_count |-> 0, raised |-> {tenant_id}]
         ELSE [cache |-> rest.cache,
               refreshed_count |-> rest.refreshed_count + 1,
               raised |-> rest.raised]

\* lines 464-471: the loop; a refresh that raises is logged and the loop goes on
RECURSIVE refresh_each(_, _, _)
refresh_each(cache, rows, answers) ==
    IF rows = <<>> THEN [cache |-> cache, refreshed_count |-> 0, raised |-> {}]
    ELSE LET tenant_id == rows[1].id
             r == refresh_tenant_domains(cache, tenant_id, get_tenant_by_id(tenant_id),
                                         answers[1].zones, answers[1].accounts,
                                         answers[1].tunnels)
             rest == refresh_each(r.cache, Tail(rows), Tail(answers))
         IN
         IF r.outcome = "raised"
         THEN [cache |-> rest.cache,
               refreshed_count |-> rest.refreshed_count,
               raised |-> rest.raised \cup {tenant_id}]
         ELSE [cache |-> rest.cache,
               refreshed_count |-> rest.refreshed_count + 1,
               raised |-> rest.raised]

\* lines 449-477; answers[i] is what the API says to the refresh of the i-th
\* tenant of the listing
refresh_command(user_id, rows, answers) ==
    IF rows = <<>>
    THEN [reply |-> "no_tenants", cache |-> tenants_cache,
          refreshed_count |-> 0, total |-> 0, raised |-> {}]
    ELSE LET r == refresh_each(tenants_cache, rows, answers) IN
         [reply |-> "refreshed", cache |-> r.cache,
          refreshed_count |-> r.refreshed_count, total |-> Len(rows),
          raised |-> r.raised]

RefreshCommand(user_id) ==
    LET g == get_tenants(user_id, super_admin_id, bot_config)
        possible == [i \in DOMAIN g.ret |-> SmallAccountAnswers(g.ret[i])]
    IN
    \E answers \in [DOMAIN g.ret -> UNION {possible[i] : i \in DOMAIN g.ret}] :
        /\ \A i \in DOMAIN g.ret : answers[i] \in possible[i]
        /\ LET r == refresh_command(user_id, g.ret, answers) IN
           /\ super_admin_id' = g.mem
           /\ bot_config' = g.cfg
           /\ tenants_cache' = r.cache
           /\ last' = [op |-> "refresh_command", user_id |-> user_id,
                       reply |-> r.reply,
                       attempted |-> {g.ret[i].id : i \in DOMAIN g.ret},
                       raised |-> r.raised,
                       refreshed_count |-> r.refreshed_count,
                       total |-> r.total]
        /\ UNCHANGED <<tenants, dialect, calls, history, current_tenant_id,
                       conversations>>

-----------------------------------------------------------------------------
(* Command handlers that read the cache.  Each operator gives the reply,   *)
(* the fields after the call and the gateway calls the handler makes.      *)

\* a line of the reply that shows the domains of every entry of the cache
domains_of_any_entry(cache, tenant) ==
    [tenant |-> tenant.name, loaded |-> DOMAIN cache # {},
     domains |-> UNION {DOMAIN cache[i].domains : i \in DOMAIN cache}]

\* lines 432-445: one line of the reply per tenant
domains_of(cache, tenant) ==
    IF tenant.id \in DOMAIN cache
    THEN [tenant |-> tenant.name, loaded |-> TRUE,
          domains |-> DOMAIN cache[tenant.id].domains]
    ELSE [tenant |-> tenant.name, loaded |-> FALSE, domains |-> {}]

\* a /domains that lists the zones of a tenant the cache has no entry for,
\* here against an account without zones
domains_command_loading(user_id) ==
    LET g == get_tenants(user_id, super_admin_id, bot_config)
        missing == {i \in DOMAIN g.ret : g.ret[i].id \notin DOMAIN tenants_cache}
        loaded == IF missing = {} THEN tenants_cache
                  ELSE LET t == g.ret[CHOOSE i \in missing : TRUE] IN
                       store_entry(tenants_cache, t.id, t, <<>>, <<>>, None)
    IN
    [reply |-> {domains_of(loaded, g.ret[i]) : i \in DOMAIN g.ret},
     mem |-> g.mem, cfg |-> g.cfg, cache |-> loaded,
     gateway |-> IF missing = {} THEN <<>> ELSE <<"zones.list">>]

\* /domains
domains_command(user_id) ==
    LET g == get_tenants(user_id, super_admin_id, bot_config) IN
    [reply |-> {domains_of(tenants_cache, g.ret[i]) : i \in DOMAIN g.ret},
     mem |-> g.mem, cfg |-> g.cfg, cache |-> tenants_cache, gateway |-> <<>>]

DomainsCommand(user_id) ==
    LET r == domains_command(user_id) IN
    /\ super_admin_id' = r.mem
    /\ bot_config' = r.cfg
    /\ tenants_cache' = r.cache
    /\ last' = [op |-> "domains_command", user_id |-> user_id,
                reply |-> r.reply, gateway |-> r.gateway]
    /\ UNCHANGED <<current_tenant_id, conversations>>
    /\ UNCHANGED <<tenants, dialect, calls, history>>

\* /tenant_info <tenant_id>
tenant_info_command(user_id, args) ==
    LET same(outcome, mem, cfg) ==
            [reply |-> [outcome |-> outcome], mem |-> mem, cfg |-> cfg,
             cache |-> tenants_cache, gateway |-> <<>>]
    IN
    IF args = <<>> \/ ~isdigit(args[1]) THEN same("usage", super_admin_id, bot_config)
    ELSE LET tenant_id == int(args[1])
             acc == has_access(user_id, tenant_id, super_admin_id, bot_config)
             tenant == get_tenant_by_id(tenant_id)
             in_cache == tenant_id \in DOMAIN tenants_cache
         IN
         IF ~acc.ret THEN same("denied", acc.mem, acc.cfg)
         ELSE IF tenant = NoTenant THEN same("not_found", acc.mem, acc.cfg)
         ELSE [reply |-> [outcome |-> "info",
                          has_token |-> Truthy(tenant.cloudflare_token),
                          in_cache |-> in_cache,
                          active |-> tenant.is_active,
                          domains |-> IF in_cache
                                      THEN Cardinality(DOMAIN tenants_cache[tenant_id].domains)
                                      ELSE 0,
                          tunnels |-> IF in_cache
                                      THEN Cardinality(DOMAIN tenants_cache[tenant_id].tunnels)
                                      ELSE 0],
               mem |-> acc.mem, cfg |-> acc.cfg, cache |-> tenants_cache,
               gateway |-> <<>>]

\* the arguments of /tenant_info
TenantInfoArgs == {<<>>, <<"x">>} \cup {<<str(t)>> : t \in 0..(MaxTenants + 1)}

TenantInfoCommand(user_id, args) ==
    LET r == tenant_info_command(user_id, args) IN
    /\ super_admin_id' = r.mem
    /\ bot_config' = r.cfg
    /\ tenants_cache' = r.cache
    /\ last' = [op |-> "tenant_info_command", user_id |-> user_id,
                reply |-> r.reply, gateway |-> r.gateway]
    /\ UNCHANGED <<current_tenant_id, conversations>>
    /\ UNCHANGED <<tenants, dialect, calls, history>>

\* /status
status_command(user_id) ==
    LET s == is_super_admin(user_id, super_admin_id, bot_config)
        g == get_tenants(0, s.mem, s.cfg)
    IN
    IF s.ret
    THEN [reply |-> [is_admin |-> TRUE,
                     cached |-> Cardinality(DOMAIN tenants_cache),
                     total |-> Len(g.ret)],
          mem |-> g.mem, cfg |-> g.cfg, cache |-> tenants_cache, gateway |-> <<>>]
    ELSE [reply |-> [is_admin |-> FALSE,
                     cached |-> Cardinality(DOMAIN tenants_cache),
                     total |-> 0],
          mem |-> s.mem, cfg |-> s.cfg, cache |-> tenants_cache, gateway |-> <<>>]

StatusCommand(user_id) ==
    LET r == status_command(user_id) IN
    /\ super_admin_id' = r.mem
    /\ bot_config' = r.cfg
    /\ tenants_cache' = r.cache
    /\ last' = [op |-> "status_command", user_id |-> user_id,
                reply |-> r.reply, gateway |-> r.gateway]
    /\ UNCHANGED <<current_tenant_id, conversations>>
    /\ UNCHANGED <<tenants, dialect, calls, history>>

-----------------------------------------------------------------------------
(* The authorization predicates as operations of their own                 *)

IsSuperAdmin(user_id) ==
    LET r == is_super_admin(user_id, super_admin_id, bot_config) IN
    /\ super_admin_id' = r.mem
    /\ bot_config' = r.cfg
    /\ last' = [op |-> "is_super_admin", user_id |-> user_id, tenant_id |-> Omitted,
                ret |-> r.ret]
    /\ UNCHANGED <<tenants, tenants_cache, dialect>>
    /\ UNCHANGED <<current_tenant_id, conversations>>
    /\ UNCHANGED <<calls, history>>

IsTenantAdmin(user_id, tenant_id) ==
    /\ last' = [op |-> "is_tenant_admin", user_id |-> user_id,
                tenant_id |-> tenant_id,
                ret |-> is_tenant_admin(user_id, tenant_id)]
    /\ UNCHANGED <<super_admin_id, bot_config, tenants, tenants_cache, dialect>>
    /\ UNCHANGED <<current_tenant_id, conversations>>
    /\ UNCHANGED <<calls, history>>

HasAccess(user_id, tenant_id) ==
    LET r == has_access(user_id, tenant_id, super_admin_id, bot_config) IN
    /\ super_admin_id' = r.mem
    /\ bot_config' = r.cfg
    /\ last' = [op |-> "has_access", user_id |-> user_id,
                tenant_id |-> tenant_id, ret |-> r.ret]
    /\ UNCHANGED <<tenants, tenants_cache, dialect>>
    /\ UNCHANGED <<current_tenant_id, conversations>>
    /\ UNCHANGED <<calls, history>>

GetTenants(user_id) ==
    LET r == get_tenants(user_id, super_admin_id, bot_config) IN
    /\ super_admin_id' = r.mem
    /\ bot_config' = r.cfg
    /\ last' = [op |-> "get_tenants", user_id |-> user_id, tenant_id |-> Omitted,
                ret |-> r.ret]
    /\ UNCHANGED <<tenants, tenants_cache, dialect>>
    /\ UNCHANGED <<current_tenant_id, conversations>>
    /\ UNCHANGED <<calls, history>>

-----------------------------------------------------------------------------
(* is_super_admin as a coroutine.  A call runs until its next await on the *)
(* database and is resumed with the answer; the calls of other updates may *)
(* run in between.  calls[u] holds the locals of the call made for user u. *)

\* the callers of is_super_admin
Callers == {"is_super_admin", "has_access", "get_tenants"}

\* a coroutine that has returned or raised
Done == "done"

\* lines 57-60: up to the first await
begin_is_super_admin(user_id, mem) ==
    IF ~Truthy(mem)
    THEN IF ~SessionLocal
         THEN [pc |-> Done, ret |-> FALSE]
         ELSE [pc |-> "select", ret |-> FALSE]
    ELSE [pc |-> Done, ret |-> (str(user_id) = mem)]

\* an adoption that also rewrites the row it has read
resume_after_select_rewriting(user_id, mem, cfg) ==
    IF "super_admin_id" \in DOMAIN cfg
    THEN [pc |-> Done, ret |-> (str(user_id) = cfg["super_admin_id"]),
          mem |-> cfg["super_admin_id"],
          cfg |-> DictPut(cfg, "super_admin_id", str(user_id))]
    ELSE [pc |-> "merge", ret |-> FALSE, mem |-> mem, cfg |-> cfg]

\* lines 61-69: resumed with the row of super_admin_id, up to the await of
\* session.merge in set_config
resume_after_select(user_id, mem, cfg) ==
    IF "super_admin_id" \in DOMAIN cfg
    THEN [pc |-> Done, ret |-> (str(user_id) = cfg["super_admin_id"]),
          mem |-> cfg["super_admin_id"], cfg |-> cfg]
    ELSE [pc |-> "merge", ret |-> FALSE, mem |-> mem, cfg |-> cfg]

\* line 110: session.merge looks the key up; the row is updated when there is
\* one and inserted otherwise
resume_after_merge(cfg) ==
    [pc |-> "commit", found |-> ("super_admin_id" \in DOMAIN cfg)]

\* line 111: session.commit writes; an INSERT of a key that another call has
\* inserted meanwhile violates the primary key and raises
resume_after_commit(user_id, found, cfg) ==
    IF ~found /\ "super_admin_id" \in DOMAIN cfg
    THEN [pc |-> Done, raised |-> TRUE, cfg |-> cfg]
    ELSE [pc |-> "adopt", raised |-> FALSE,
          cfg |-> DictPut(cfg, "super_admin_id", str(user_id))]

\* lines 71-72: back from set_config
adopt(user_id) == [mem |-> str(user_id), ret |-> TRUE]

Idle(user_id) == user_id \notin DOMAIN calls

At(user_id, pc) == user_id \in DOMAIN calls /\ calls[user_id].pc = pc

Step(step, user_id, returned, ret, sql) ==
    [op |-> "is_super_admin", step |-> step, user_id |-> user_id,
     returned |-> returned, ret |-> ret, sql |-> sql]

IsSuperAdminBegin(user_id, caller) ==
    /\ Idle(user_id)
    /\ LET r == begin_is_super_admin(user_id, super_admin_id) IN
       /\ calls' = IF r.pc = Done THEN calls
                   ELSE DictPut(calls, user_id,
                                [pc |-> r.pc, caller |-> caller, found |-> FALSE])
       /\ last' = Step("begin", user_id, r.pc = Done, r.ret, <<>>)
    /\ UNCHANGED <<current_tenant_id, conversations>>
    /\ UNCHANGED <<super_admin_id, bot_config, tenants, tenants_cache, dialect,
                   history>>

IsSuperAdminSelect(user_id) ==
    /\ At(user_id, "select")
    /\ LET r == resume_after_select(user_id, super_admin_id, bot_config) IN
       /\ super_admin_id' = r.mem
       /\ bot_config' = r.cfg
       /\ calls' = IF r.pc = Done THEN DictDel(calls, user_id)
                   ELSE [calls EXCEPT ![user_id].pc = r.pc]
       /\ last' = Step("select", user_id, r.pc = Done, r.ret, <<"select">>)
    /\ UNCHANGED <<current_tenant_id, conversations>>
    /\ UNCHANGED <<tenants, tenants_cache, dialect, history>>

IsSuperAdminMerge(user_id) ==
    /\ At(user_id, "merge")
    /\ LET r == resume_after_merge(bot_config) IN
       /\ calls' = [calls EXCEPT ![user_id].pc = r.pc, ![user_id].found = r.found]
       /\ last' = Step("merge", user_id, FALSE, FALSE, <<"select">>)
    /\ UNCHANGED <<current_tenant_id, conversations>>
    /\ UNCHANGED <<super_admin_id, bot_config, tenants, tenants_cache, dialect,
                   history>>

IsSuperAdminCommit(user_id) ==
    /\ At(user_id, "commit")
    /\ LET r == resume_after_commit(user_id, calls[user_id].found, bot_config) IN
       /\ bot_config' = r.cfg
       /\ calls' = IF r.pc = Done THEN DictDel(calls, user_id)
                   ELSE [calls EXCEPT ![user_id].pc = r.pc]
       /\ history' = IF r.raised THEN history
                     ELSE [history EXCEPT !.writes = @ + 1]
       /\ last' = Step("commit", user_id, r.raised, FALSE,
                       IF r.raised THEN <<>>
                       ELSE IF calls[user_id].found THEN <<"update">>
                       ELSE <<"insert">>)
    /\ UNCHANGED <<current_tenant_id, conversations>>
    /\ UNCHANGED <<super_admin_id, tenants, tenants_cache, dialect>>

IsSuperAdminAdopt(user_id) ==
    /\ At(user_id, "adopt")
    /\ LET r == adopt(user_id) IN
       /\ super_admin_id' = r.mem
       /\ calls' = DictDel(calls, user_id)
       /\ history' = [history EXCEPT !.fired = @ \cup {user_id}]
       /\ last' = Step("adopt", user_id, TRUE, r.ret, <<>>)
    /\ UNCHANGED <<current_tenant_id, conversations>>
    /\ UNCHANGED <<bot_config, tenants, tenants_cache, dialect>>

-----------------------------------------------------------------------------
(* add_tenant_command as a coroutine.  calls[k] holds the locals of the    *)
(* k-th update being handled.                                              *)

\* the updates that can be in handling at once
InFlight == 1..MaxInFlight

\* lines 481-519: up to the await of the SELECT by name
begin_add_tenant(user_id, args) ==
    LET s == is_super_admin(user_id, super_admin_id, bot_config)
        end(outcome) == [pc |-> Done, outcome |-> outcome, mem |-> s.mem, cfg |-> s.cfg]
    IN
    IF ~s.ret THEN end("denied")
    ELSE IF Len(args) < 2 THEN end("usage")
    ELSE IF ~isdigit(args[2]) THEN end("bad_admin")
    ELSE IF ~SessionLocal THEN end("no_database")
    ELSE [pc |-> "select", outcome |-> "pending", mem |-> s.mem, cfg |-> s.cfg]

\* lines 523-528: resumed with the rows that carry the name, up to the await
\* of the commit
resume_add_tenant_select(store, tenant_name) ==
    IF Cardinality(rows_named(store, tenant_name)) > 1
    THEN [pc |-> Done, outcome |-> "failed"]
    ELSE IF Cardinality(rows_named(store, tenant_name)) = 1
    THEN [pc |-> Done, outcome |-> "exists"]
    ELSE [pc |-> "commit", outcome |-> "pending"]

AddTenantStep(step, k, outcome) ==
    [op |-> "add_tenant_command", step |-> step, update |-> k, outcome |-> outcome]

AddTenantBegin(k, user_id, args) ==
    /\ k \notin DOMAIN calls
    /\ LET r == begin_add_tenant(user_id, args) IN
       /\ super_admin_id' = r.mem
       /\ bot_config' = r.cfg
       /\ calls' = IF r.pc = Done THEN calls
                   ELSE DictPut(calls, k, [pc |-> r.pc, tenant_name |-> args[1],
                                           admin_user_id |-> args[2]])
       /\ last' = AddTenantStep("begin", k, r.outcome)
    /\ UNCHANGED <<current_tenant_id, conversations>>
    /\ UNCHANGED <<tenants, tenants_cache, dialect, history>>

AddTenantSelect(k) ==
    /\ k \in DOMAIN calls /\ calls[k].pc = "select"
    /\ LET r == resume_add_tenant_select(tenants, calls[k].tenant_name) IN
       /\ calls' = IF r.pc = Done THEN DictDel(calls, k)
                   ELSE [calls EXCEPT ![k].pc = r.pc]
       /\ last' = AddTenantStep("select", k, r.outcome)
    /\ UNCHANGED <<current_tenant_id, conversations>>
    /\ UNCHANGED <<super_admin_id, bot_config, tenants, tenants_cache, dialect,
                   history>>

\* lines 531-541; the autoincrement id is capped: a full store takes no row
AddTenantCommit(k) ==
    /\ k \in DOMAIN calls /\ calls[k].pc = "commit"
    /\ Len(tenants) < MaxTenants
    /\ tenants' = insert_tenant(tenants, calls[k].tenant_name, calls[k].admin_user_id)
    /\ calls' = DictDel(calls, k)
    /\ last' = AddTenantStep("commit", k, "created")
    /\ UNCHANGED <<current_tenant_id, conversations>>
    /\ UNCHANGED <<super_admin_id, bot_config, tenants_cache, dialect, history>>

-----------------------------------------------------------------------------
(* refresh_tenant_domains and connect_cf_command as coroutines.  The three *)
(* listings of a refresh touch no field of the manager and the entry is    *)
(* assigned in the code that runs when the last of them answers, so the    *)
(* listings and the commit are one step.  The coroutines suspended at an   *)
(* await are a bag: two of them can hold the same locals.                  *)

Coroutine(op, pc, tenant_id, tenant, api_token) ==
    [op |-> op, pc |-> pc, tenant_id |-> tenant_id, tenant |-> tenant,
     api_token |-> api_token]

Suspended(c, op, pc) ==
    BagIn(c, calls) /\ c.op = op /\ c.pc = pc

\* one more update can be taken into handling
Admits == BagCardinality(calls) < MaxInFlight

Suspend(c) == calls (+) SetToBag({c})

Resume(c) == calls (-) SetToBag({c})

\* line 152: the call is made and awaits get_tenant_by_id
RefreshBegin(tenant_id) ==
    /\ Admits
    /\ calls' = Suspend(Coroutine("refresh", "get_tenant", tenant_id, NoTenant, ""))
    /\ last' = [op |-> "refresh_tenant_domains", step |-> "begin",
                tenant_id |-> tenant_id]
    /\ UNCHANGED <<current_tenant_id, conversations>>
    /\ UNCHANGED <<super_admin_id, bot_config, tenants, tenants_cache, dialect,
                   history>>

\* lines 152-157: resumed with the tenant row as it is now
RefreshGetTenant(c) ==
    /\ Suspended(c, "refresh", "get_tenant")
    /\ LET tenant == get_tenant_by_id(c.tenant_id) IN
       /\ calls' = IF tenant_resolves(tenant)
                   THEN Resume(c) (+)
                        SetToBag({[c EXCEPT !.pc = "listing", !.tenant = tenant]})
                   ELSE Resume(c)
       /\ last' = [op |-> "refresh_tenant_domains", step |-> "get_tenant",
                   tenant_id |-> c.tenant_id]
    /\ UNCHANGED <<current_tenant_id, conversations>>
    /\ UNCHANGED <<super_admin_id, bot_config, tenants, tenants_cache, dialect,
                   history>>

\* lines 158-250: the listings answer and the entry is assigned, or the zone
\* listing fails and the call raises
RefreshFinish(c) ==
    /\ Suspended(c, "refresh", "listing")
    /\ \E ans \in RefreshAnswers(c.tenant) :
          LET r == refresh_tenant_domains(tenants_cache, c.tenant_id, c.tenant,
                                          ans.zones, ans.accounts, ans.tunnels)
          IN
          /\ tenants_cache' = r.cache
          /\ calls' = Resume(c)
          /\ last' = [op |-> "refresh_tenant_domains", step |-> "finish",
                      tenant_id |-> c.tenant_id,
                      outcome |-> r.outcome,
                      had_entry |-> (c.tenant_id \in DOMAIN tenants_cache),
                      tenant |-> c.tenant,
                      zones |-> ans.zones, accounts |-> ans.accounts,
                      tunnels |-> ans.tunnels]
    /\ UNCHANGED <<current_tenant_id, conversations>>
    /\ UNCHANGED <<super_admin_id, bot_config, tenants, dialect, history>>

\* lines 559-633: the checks and the validation of the token, up to the await
\* of the commit of the new token
ConnectBegin(user_id, args) ==
    /\ Admits
    /\ \E answer \in IF Len(args) > 1 THEN {Raised, Page(<<>>)} ELSE {NotCalled} :
          LET r == connect_cf_command(user_id, args, answer) IN
          /\ super_admin_id' = r.mem
          /\ bot_config' = r.cfg
          /\ calls' = IF r.outcome = "connected"
                      THEN Suspend(Coroutine("connect", "commit", r.tenant_id,
                                             NoTenant, args[2]))
                      ELSE calls
          /\ last' = [op |-> "connect_cf_command", step |-> "begin",
                      tenant_id |-> r.tenant_id,
                      outcome |-> IF r.outcome = "connected" THEN "pending"
                                  ELSE r.outcome]
    /\ UNCHANGED <<current_tenant_id, conversations>>
    /\ UNCHANGED <<tenants, tenants_cache, dialect, history>>

\* lines 636-637: the database commits the new token
ConnectCommit(c) ==
    /\ Suspended(c, "connect", "commit")
    /\ tenants' = save_token(tenants, c.tenant_id, c.api_token)
    /\ calls' = Resume(c) (+) SetToBag({[c EXCEPT !.pc = "invalidate"]})
    /\ last' = [op |-> "connect_cf_command", step |-> "commit",
                tenant_id |-> c.tenant_id, outcome |-> "pending"]
    /\ UNCHANGED <<current_tenant_id, conversations>>
    /\ UNCHANGED <<super_admin_id, bot_config, tenants_cache, dialect, history>>

\* lines 639-641: resumed after the commit, the handler drops the entry
ConnectInvalidate(c) ==
    /\ Suspended(c, "connect", "invalidate")
    /\ tenants_cache' = clear_cached(tenants_cache, c.tenant_id)
    /\ calls' = Resume(c)
    /\ history' = [history EXCEPT !.changed = @ \cup {c.tenant_id}]
    /\ last' = [op |-> "connect_cf_command", step |-> "invalidate",
                tenant_id |-> c.tenant_id, outcome |-> "connected"]
    /\ UNCHANGED <<current_tenant_id, conversations>>
    /\ UNCHANGED <<super_admin_id, bot_config, tenants, dialect>>

-----------------------------------------------------------------------------
(* Message texts (src/main.py).  A text is a sequence of characters; the   *)
(* str methods the handlers call are computed on it.                       *)

Space == " "

\* str.strip(): leading and trailing blanks removed
RECURSIVE lstrip(_)
lstrip(t) == IF t # <<>> /\ Head(t) = Space THEN lstrip(Tail(t)) ELSE t

RECURSIVE rstrip(_)
rstrip(t) ==
    IF t # <<>> /\ t[Len(t)] = Space THEN rstrip(SubSeq(t, 1, Len(t) - 1)) ELSE t

strip(t) == rstrip(lstrip(t))

LowerCase ==
    ("A" :> "a") @@ ("U" :> "u") @@ ("T" :> "t") @@ ("O" :> "o") @@ ("S" :> "s")

\* str.lower()
lower(t) ==
    [i \in DOMAIN t |-> IF t[i] \in DOMAIN LowerCase THEN LowerCase[t[i]] ELSE t[i]]

\* the characters as one str
RECURSIVE text(_)
text(t) == IF t = <<>> THEN "" ELSE Head(t) \o text(Tail(t))

DigitValue ==
    ("0" :> 0) @@ ("1" :> 1) @@ ("2" :> 2) @@ ("3" :> 3) @@ ("4" :> 4) @@
    ("5" :> 5) @@ ("6" :> 6) @@ ("7" :> 7) @@ ("8" :> 8) @@ ("9" :> 9)

all_digits(t) == t # <<>> /\ \A i \in DOMAIN t : t[i] \in DOMAIN DigitValue

RECURSIVE digits_value(_)
digits_value(t) ==
    IF t = <<>> THEN 0
    ELSE 10 * digits_value(SubSeq(t, 1, Len(t) - 1)) + DigitValue[t[Len(t)]]

\* int(text): blanks around the number and one sign are accepted, anything
\* else is a ValueError.  Python integers do not overflow
parses_as_int(t) ==
    LET u == strip(t) IN
    /\ u # <<>>
    /\ all_digits(IF Head(u) \in {"-", "+"} THEN Tail(u) ELSE u)

int_of(t) ==
    LET u == strip(t) IN
    IF Head(u) = "-" THEN 0 - digits_value(Tail(u))
    ELSE IF Head(u) = "+" THEN digits_value(Tail(u))
    ELSE digits_value(u)

-----------------------------------------------------------------------------
(* The menu-driven bot, src/main.py class CloudflareDNSBot.  Its tenants   *)
(* table keeps is_active as the string 'true' and every query compares it  *)
(* with the literal 'true'.  is_super_admin is the method of handlers.py.  *)

ActiveText == "true"

\* lines 112-130
DNSBot_is_tenant_admin(user_id, tenant_id) ==
    IF Given(tenant_id)
    THEN \E i \in TenantIds :
            /\ i = tenant_id
            /\ tenants[i].is_active = ActiveText
            /\ tenants[i].admin_user_id = str(user_id)
    ELSE Cardinality({i \in TenantIds :
                         /\ tenants[i].admin_user_id = str(user_id)
                         /\ tenants[i].is_active = ActiveText}) > 0

\* lines 144-150
DNSBot_has_access(user_id, tenant_id, mem, cfg) ==
    LET s == is_super_admin(user_id, mem, cfg) IN
    IF s.ret THEN [ret |-> TRUE, mem |-> s.mem, cfg |-> s.cfg]
    ELSE IF Given(tenant_id)
         THEN [ret |-> DNSBot_is_tenant_admin(user_id, tenant_id),
               mem |-> s.mem, cfg |-> s.cfg]
         ELSE [ret |-> DNSBot_is_tenant_admin(user_id, Omitted),
               mem |-> s.mem, cfg |-> s.cfg]

\* lines 168-184
DNSBot_get_tenants(user_id, mem, cfg) ==
    LET s == is_super_admin(user_id, mem, cfg) IN
    IF ~s.ret
    THEN [ret |-> SelectSeq(tenants, LAMBDA t :
                      t.admin_user_id = str(user_id) /\ t.is_active = ActiveText),
          mem |-> s.mem, cfg |-> s.cfg]
    ELSE [ret |-> SelectSeq(tenants, LAMBDA t : t.is_active = ActiveText),
          mem |-> s.mem, cfg |-> s.cfg]

\* lines 198-217: the cache after the call, and whether it raised.  The
\* entry holds the tenant row and the zones by name and by id
DNSBot_refresh_tenant_domains(cache, store, tenant_id, zones) ==
    IF tenant_id \notin DOMAIN store
    THEN [outcome |-> "returned", cache |-> cache]
    ELSE IF zones.status = "raised"
    THEN [outcome |-> "raised", cache |-> cache]
    ELSE [outcome |-> "committed",
          cache |-> DictPut(cache, tenant_id,
                            [tenant |-> store[tenant_id],
                             domains |-> domains_dict_of(zones.result),
                             zones |-> zones_dict_of(zones.result)])]

\* the answer of the zone listing a refresh of the tenant makes, if it makes one
DNSBot_refresh_answers(store, tenant_id) ==
    IF tenant_id \in DOMAIN store
    THEN ZoneAnswers(store[tenant_id].cloudflare_token)
    ELSE {NotCalled}

-----------------------------------------------------------------------------
(* The add-tenant conversation of src/main.py (lines 1291-1300).  A        *)
(* conversation is kept per user; a handler that returns None leaves its   *)
(* state as it was.                                                        *)

END == "END"

Conversation(state, user_data) == [state |-> state, user_data |-> user_data]

\* no conversation, and context.user_data empty
NoConversation == Conversation(END, EmptyDict)

\* what the users type as a name or a description
NameTexts == { <<"a", "c", "m", "e">>, <<" ", "a", "c", "m", "e">> }

\* what the users type as a description
DescriptionTexts == { <<"S", "k", "i", "p">>, <<"h", "q">> }

\* what the users type as the admin's user id
AdminTexts == { <<"2">>, <<"2", " ">>, <<"x">> }

In(user_id, state) == conversations[user_id].state = state

\* lines 390-406: the entry point.  A caller who is not super admin gets no
\* conversation
add_tenant_started_for_anyone(user_id, mem, cfg) ==
    LET s == is_super_admin(user_id, mem, cfg) IN
    [state |-> "WAITING_TENANT_NAME", mem |-> s.mem, cfg |-> s.cfg]

add_tenant_start(user_id, mem, cfg) ==
    LET s == is_super_admin(user_id, mem, cfg) IN
    IF ~s.ret THEN [state |-> END, mem |-> s.mem, cfg |-> s.cfg]
    ELSE [state |-> "WAITING_TENANT_NAME", mem |-> s.mem, cfg |-> s.cfg]

AddTenantStart(user_id) ==
    /\ In(user_id, END)
    /\ LET r == add_tenant_start(user_id, super_admin_id, bot_config) IN
       /\ super_admin_id' = r.mem
       /\ bot_config' = r.cfg
       /\ conversations' =
             [conversations EXCEPT ![user_id].state = r.state]
       /\ history' = [history EXCEPT ![user_id] = 0]
       /\ last' = [op |-> "add_tenant_start", user_id |-> user_id,
                   ret |-> r.state, inserted |-> FALSE]
    /\ UNCHANGED <<tenants, tenants_cache, dialect, calls, current_tenant_id>>

\* lines 408-419
HandleTenantName(user_id, message) ==
    /\ In(user_id, "WAITING_TENANT_NAME")
    /\ conversations' =
          [conversations EXCEPT
              ![user_id].state = "WAITING_TENANT_DESCRIPTION",
              ![user_id].user_data =
                  DictPut(@, "tenant_name", text(strip(message)))]
    /\ last' = [op |-> "handle_tenant_name", user_id |-> user_id,
                ret |-> "WAITING_TENANT_DESCRIPTION", inserted |-> FALSE]
    /\ UNCHANGED <<super_admin_id, bot_config, tenants, tenants_cache, dialect,
                   calls, history, current_tenant_id>>

\* lines 421-438: 'skip' stands for no description
HandleTenantDescription(user_id, message) ==
    /\ In(user_id, "WAITING_TENANT_DESCRIPTION")
    /\ LET description == text(strip(message)) IN
       conversations' =
          [conversations EXCEPT
              ![user_id].state = "WAITING_TENANT_ADMIN",
              ![user_id].user_data =
                  DictPut(@, "tenant_description",
                          IF text(lower(strip(message))) = "skip" THEN ""
                          ELSE description)]
    /\ last' = [op |-> "handle_tenant_description", user_id |-> user_id,
                ret |-> "WAITING_TENANT_ADMIN", inserted |-> FALSE]
    /\ UNCHANGED <<super_admin_id, bot_config, tenants, tenants_cache, dialect,
                   calls, history, current_tenant_id>>

\* lines 440-462: a text that is no number is asked for again
HandleTenantAdmin(user_id, message) ==
    /\ In(user_id, "WAITING_TENANT_ADMIN")
    /\ LET ok == parses_as_int(strip(message)) IN
       /\ conversations' =
             IF ok
             THEN [conversations EXCEPT
                     ![user_id].state = "WAITING_CF_TOKEN",
                     ![user_id].user_data =
                         DictPut(@, "tenant_admin", str(int_of(strip(message))))]
             ELSE conversations
       /\ last' = [op |-> "handle_tenant_admin", user_id |-> user_id,
                   ret |-> IF ok THEN "WAITING_CF_TOKEN" ELSE "WAITING_TENANT_ADMIN",
                   inserted |-> FALSE]
    /\ UNCHANGED <<super_admin_id, bot_config, tenants, tenants_cache, dialect,
                   calls, history, current_tenant_id>>

\* lines 478-487: the INSERT; lastrowid is the id of the new row
DNSBot_insert_tenant(store, user_data, cf_token) ==
    Append(store, Tenant(Len(store) + 1, user_data["tenant_name"], cf_token,
                         user_data["tenant_admin"], ActiveText))

\* lines 464-526.  The try block holds the test of the token, the INSERT and
\* its commit, the refresh of the new tenant and the reply; whatever raises
\* in it is answered as an invalid token and the state is kept.
\*   tested: the answer to the zone listing of line 471
\*   listed: the answer to the zone listing of the refresh of line 490
handle_cf_token(store, cache, user_data, cf_token, tested, listed) ==
    IF tested.status = "raised"
    THEN [ret |-> "WAITING_CF_TOKEN", reply |-> "invalid_token",
          tenants |-> store, cache |-> cache, user_data |-> user_data]
    ELSE LET inserted == DNSBot_insert_tenant(store, user_data, cf_token)
             r == DNSBot_refresh_tenant_domains(cache, inserted, Len(inserted), listed)
         IN
         IF r.outcome = "raised"
         THEN [ret |-> "WAITING_CF_TOKEN", reply |-> "invalid_token",
               tenants |-> inserted, cache |-> r.cache, user_data |-> user_data]
         ELSE [ret |-> END, reply |-> "created",
               tenants |-> inserted, cache |-> r.cache, user_data |-> EmptyDict]

\* the autoincrement id is capped: a store that is full takes no new token
HandleCfToken(user_id, cf_token) ==
    /\ In(user_id, "WAITING_CF_TOKEN")
    /\ Len(tenants) < MaxTenants
    /\ \E tested \in {Raised, Page(<<>>)}, listed \in {Raised, Page(<<>>)} :
          LET r == handle_cf_token(tenants, tenants_cache,
                                   conversations[user_id].user_data, cf_token,
                                   tested, listed)
          IN
          /\ tenants' = r.tenants
          /\ tenants_cache' = r.cache
          /\ conversations' =
                [conversations EXCEPT ![user_id] = Conversation(r.ret, r.user_data)]
          /\ history' = [history EXCEPT
                           ![user_id] = @ + Len(r.tenants) - Len(tenants)]
          /\ last' = [op |-> "handle_cf_token", user_id |-> user_id,
                      ret |-> r.ret, reply |-> r.reply,
                      inserted |-> (r.tenants # tenants)]
    /\ UNCHANGED <<super_admin_id, bot_config, dialect, calls, current_tenant_id>>

\* lines 1275-1284: /cancel in any state of the conversation
CancelConversation(user_id) ==
    /\ ~In(user_id, END)
    /\ conversations' = [conversations EXCEPT ![user_id] = NoConversation]
    /\ last' = [op |-> "cancel_conversation", user_id |-> user_id, ret |-> END,
                inserted |-> FALSE]
    /\ UNCHANGED <<super_admin_id, bot_config, tenants, tenants_cache, dialect,
                   calls, history, current_tenant_id>>

-----------------------------------------------------------------------------
(* Tenant selection in the menu-driven bot (src/main.py).  One tenant is   *)
(* current for the whole process.                                          *)

\* the zone listings of accounts that hold one zone at most
SmallZoneAnswers(store, tenant_id) ==
    {z \in DNSBot_refresh_answers(store, tenant_id) : Len(z.result) <= 1}

\* lines 227-296.  A tenant admin with one tenant gets it selected: line 254
\* assigns current_tenant_id and line 255 refreshes; a refresh that raises
\* ends the handler there
start_command(user_id, mem, cfg, cache, current, zones) ==
    LET s == is_super_admin(user_id, mem, cfg)
        g == DNSBot_get_tenants(user_id, s.mem, s.cfg)
        r == DNSBot_refresh_tenant_domains(cache, tenants, g.ret[1].id, zones)
    IN
    IF ~s.ret /\ ~DNSBot_is_tenant_admin(user_id, Omitted)
    THEN [reply |-> "denied", mem |-> s.mem, cfg |-> s.cfg,
          cache |-> cache, current |-> current]
    ELSE IF Len(g.ret) = 1 /\ ~s.ret
    THEN [reply |-> IF r.outcome = "raised" THEN "raised" ELSE "menu",
          mem |-> g.mem, cfg |-> g.cfg, cache |-> r.cache,
          current |-> g.ret[1].id]
    ELSE [reply |-> "menu", mem |-> g.mem, cfg |-> g.cfg,
          cache |-> cache, current |-> current]

\* the tenant /start would select for the user, if any
AutoSelected(user_id) ==
    LET s == is_super_admin(user_id, super_admin_id, bot_config)
        g == DNSBot_get_tenants(user_id, s.mem, s.cfg)
    IN IF Len(g.ret) = 1 /\ ~s.ret THEN g.ret[1].id ELSE NoCurrentTenant

StartCommand(user_id) ==
    \E zones \in SmallZoneAnswers(tenants, AutoSelected(user_id)) :
        LET r == start_command(user_id, super_admin_id, bot_config,
                               tenants_cache, current_tenant_id, zones) IN
        /\ super_admin_id' = r.mem
        /\ bot_config' = r.cfg
        /\ tenants_cache' = r.cache
        /\ current_tenant_id' = r.current
        /\ last' = [op |-> "start_command", user_id |-> user_id,
                    reply |-> r.reply, listing |-> zones.status]
        /\ UNCHANGED <<tenants, dialect, calls, history, conversations>>

\* lines 581-625; the tenant id is the one the callback data carries.  Line
\* 596 assigns current_tenant_id after the refresh returned, also when the
\* refresh found no tenant; the look-up of line 598 then raises and the
\* handler answers with the error text
set_tenant(user_id, tenant_id, mem, cfg, cache, current, zones) ==
    LET acc == DNSBot_has_access(user_id, tenant_id, mem, cfg)
        r == DNSBot_refresh_tenant_domains(cache, tenants, tenant_id, zones)
    IN
    IF ~acc.ret
    THEN [reply |-> "denied", mem |-> acc.mem, cfg |-> acc.cfg,
          cache |-> cache, current |-> current]
    ELSE IF r.outcome = "raised"
    THEN [reply |-> "error", mem |-> acc.mem, cfg |-> acc.cfg,
          cache |-> r.cache, current |-> current]
    ELSE IF tenant_id \notin DOMAIN r.cache
    THEN [reply |-> "error", mem |-> acc.mem, cfg |-> acc.cfg,
          cache |-> r.cache, current |-> tenant_id]
    ELSE [reply |-> "switched", mem |-> acc.mem, cfg |-> acc.cfg,
          cache |-> r.cache, current |-> tenant_id]

SetTenant(user_id, tenant_id) ==
    \E zones \in SmallZoneAnswers(tenants, tenant_id) :
        LET r == set_tenant(user_id, tenant_id, super_admin_id, bot_config,
                            tenants_cache, current_tenant_id, zones) IN
        /\ super_admin_id' = r.mem
        /\ bot_config' = r.cfg
        /\ tenants_cache' = r.cache
        /\ current_tenant_id' = r.current
        /\ last' = [op |-> "set_tenant", user_id |-> user_id,
                    reply |-> r.reply, listing |-> zones.status]
        /\ UNCHANGED <<tenants, dialect, calls, history, conversations>>

\* lines 219-225: the credential of the current tenant, "" for None
get_current_cf_client(cache, current) ==
    IF current = NoCurrentTenant \/ current \notin DOMAIN cache THEN ""
    ELSE cache[current].tenant.cloudflare_token

-----------------------------------------------------------------------------
(* The add-record conversation of src/main.py (lines 1303-1313).  A        *)
(* handler that raises leaves the state of the conversation as it was,     *)
(* with what it had stored in user_data before it raised.                  *)

ZoneIdArgs == {z.id : z \in ZoneObjs}
RecordTypes == {"A", "MX"}
RecordNameTexts == { <<"w">> }
RecordContentTexts == { <<"h">> }
PriorityTexts == { <<"5">>, <<"x">> }
TtlTexts == { <<"a", "u", "t", "o">>, <<"A", "U", "T", "O">>,
              <<" ", "A", "u", "t", "o", " ">>,
              <<"0">>, <<"-", "5">>, <<"1">>, <<"1", "1", "9">>,
              <<"1", "2", "0">>, <<"1", "2", "1">>, <<"a">>, <<>> }

\* lines 949-960 without the floor of lines 956-957
record_ttl_as_typed(message) ==
    LET ttl_input == lower(strip(message)) IN
    IF text(ttl_input) = "auto" THEN [valid |-> TRUE, ttl |-> 1]
    ELSE IF parses_as_int(ttl_input)
    THEN [valid |-> TRUE, ttl |-> int_of(ttl_input)]
    ELSE [valid |-> FALSE, ttl |-> 0]

\* lines 949-960: the TTL the message stands for, if it stands for one
record_ttl(message) ==
    LET ttl_input == lower(strip(message)) IN
    IF text(ttl_input) = "auto" THEN [valid |-> TRUE, ttl |-> 1]
    ELSE IF parses_as_int(ttl_input)
    THEN [valid |-> TRUE,
          ttl |-> IF int_of(ttl_input) < 120 THEN 120 ELSE int_of(ttl_input)]
    ELSE [valid |-> FALSE, ttl |-> 0]

\* lines 847-852 and 869-885: the zone of the conversation in the entry of
\* the current tenant; the look-up raises without the entry or the zone
zone_found(cache, current, user_data) ==
    /\ current \in DOMAIN cache
    /\ user_data["zone_id"] \in DOMAIN cache[current].zones

\* lines 802-837; the zone id is the one the callback data carries
AddRecordStart(user_id, zone_id) ==
    /\ In(user_id, END)
    /\ LET acc == DNSBot_has_access(user_id,
                      IF current_tenant_id = NoCurrentTenant THEN Omitted
                      ELSE current_tenant_id,
                      super_admin_id, bot_config)
           c == conversations[user_id]
       IN
       /\ super_admin_id' = acc.mem
       /\ bot_config' = acc.cfg
       /\ conversations' =
              IF acc.ret
              THEN [conversations EXCEPT ![user_id] =
                       Conversation("WAITING_RECORD_TYPE",
                                    DictPut(c.user_data, "zone_id", zone_id))]
              ELSE conversations
       /\ last' = [op |-> "add_record_start", user_id |-> user_id,
                   reply |-> IF acc.ret THEN "select_type" ELSE "denied"]
    /\ UNCHANGED <<tenants, tenants_cache, dialect, calls, history,
                   current_tenant_id>>

\* lines 839-861
HandleRecordType(user_id, record_type) ==
    /\ In(user_id, "WAITING_RECORD_TYPE")
    /\ LET c == conversations[user_id]
           found == zone_found(tenants_cache, current_tenant_id, c.user_data)
       IN
       /\ conversations' = [conversations EXCEPT ![user_id] =
              Conversation(IF found THEN "WAITING_RECORD_NAME" ELSE c.state,
                           DictPut(c.user_data, "record_type", record_type))]
       /\ last' = [op |-> "handle_record_type", user_id |-> user_id,
                   reply |-> IF found THEN "enter_name" ELSE "raised"]
    /\ UNCHANGED <<super_admin_id, bot_config, tenants, tenants_cache, dialect,
                   calls, history, current_tenant_id>>

\* lines 863-895
HandleRecordName(user_id, message) ==
    /\ In(user_id, "WAITING_RECORD_NAME")
    /\ LET c == conversations[user_id]
           found == zone_found(tenants_cache, current_tenant_id, c.user_data)
       IN
       /\ conversations' = [conversations EXCEPT ![user_id] =
              Conversation(IF found THEN "WAITING_RECORD_CONTENT" ELSE c.state,
                           DictPut(c.user_data, "record_name",
                                   text(strip(message))))]
       /\ last' = [op |-> "handle_record_name", user_id |-> user_id,
                   reply |-> IF found THEN "enter_content" ELSE "raised"]
    /\ UNCHANGED <<super_admin_id, bot_config, tenants, tenants_cache, dialect,
                   calls, history, current_tenant_id>>

\* lines 897-924
HandleRecordContent(user_id, message) ==
    /\ In(user_id, "WAITING_RECORD_CONTENT")
    /\ LET c == conversations[user_id]
           priority == c.user_data["record_type"] \in {"MX", "SRV"}
       IN
       /\ conversations' = [conversations EXCEPT ![user_id] =
              Conversation(IF priority THEN "WAITING_RECORD_PRIORITY"
                           ELSE "WAITING_RECORD_TTL",
                           DictPut(c.user_data, "record_content",
                                   text(strip(message))))]
       /\ last' = [op |-> "handle_record_content", user_id |-> user_id,
                   reply |-> IF priority THEN "enter_priority" ELSE "enter_ttl"]
    /\ UNCHANGED <<super_admin_id, bot_config, tenants, tenants_cache, dialect,
                   calls, history, current_tenant_id>>

\* lines 926-945
HandleRecordPriority(user_id, message) ==
    /\ In(user_id, "WAITING_RECORD_PRIORITY")
    /\ LET c == conversations[user_id]
           valid == parses_as_int(strip(message))
       IN
       /\ conversations' =
              IF valid
              THEN [conversations EXCEPT ![user_id] =
                       Conversation("WAITING_RECORD_TTL",
                                    DictPut(c.user_data, "record_priority",
                                            text(strip(message))))]
              ELSE conversations
       /\ last' = [op |-> "handle_record_priority", user_id |-> user_id,
                   reply |-> IF valid THEN "enter_ttl" ELSE "invalid_priority"]
    /\ UNCHANGED <<super_admin_id, bot_config, tenants, tenants_cache, dialect,
                   calls, history, current_tenant_id>>

\* the answers of the provider to the creation of a record
CreateRecordAnswers == {"created", "raised"}

\* lines 947-1030: the reply, what the handler returns, the user_data it
\* leaves and the creation it sent: the credential ("" when none was sent),
\* the tenant it belongs to and the TTL
handle_record_ttl(cache, current, user_data, message, answer) ==
    LET t == record_ttl(message)
        cf == get_current_cf_client(cache, current)
        named == user_data["zone_id"] \in DOMAIN cache[current].zones
    IN
    IF ~t.valid
    THEN [reply |-> "invalid_ttl", ret |-> "WAITING_RECORD_TTL",
          user_data |-> user_data, credential |-> "",
          tenant_id |-> NoCurrentTenant, ttl |-> 0]
    ELSE IF cf = ""
    THEN [reply |-> "no_tenant", ret |-> None,
          user_data |-> user_data, credential |-> "",
          tenant_id |-> NoCurrentTenant, ttl |-> 0]
    ELSE [reply |-> IF answer = "created" /\ named THEN "created" ELSE "error",
          ret |-> END, user_data |-> EmptyDict, credential |-> cf,
          tenant_id |-> current, ttl |-> t.ttl]

HandleRecordTtl(user_id, message) ==
    /\ In(user_id, "WAITING_RECORD_TTL")
    /\ \E answer \in CreateRecordAnswers :
        LET c == conversations[user_id]
            r == handle_record_ttl(tenants_cache, current_tenant_id,
                                   c.user_data, message, answer)
        IN
        /\ conversations' = [conversations EXCEPT ![user_id] =
               Conversation(IF r.ret = None THEN c.state ELSE r.ret,
                            r.user_data)]
        /\ last' = [op |-> "handle_record_ttl", user_id |-> user_id,
                    reply |-> r.reply, ret |-> r.ret, message |-> message,
                    credential |-> r.credential, tenant_id |-> r.tenant_id,
                    ttl |-> r.ttl]
    /\ UNCHANGED <<super_admin_id, bot_config, tenants, tenants_cache, dialect,
                   calls, history, current_tenant_id>>

-----------------------------------------------------------------------------
(* Specifications                                                          *)

NoOperation == [op |-> "none"]

\* a store left by earlier runs: an active tenant created by /add_tenant and
\* not yet connected, and a deactivated tenant that still holds its token
InitTenants ==
    << Tenant(1, "acme", "", "2", TRUE),
       Tenant(2, "globex", "tokA", "2", FALSE) >>

\* the cache subsystem: a fresh process over the store above, started with
\* SUPER_ADMIN_ID=1 and a PostgreSQL DATABASE_URL, so that the tenant admin
\* of a tenant is granted access to it
Init ==
    /\ current_tenant_id = NoCurrentTenant
    /\ conversations = <<>>
    /\ super_admin_id = "1"
    /\ bot_config = EmptyDict
    /\ tenants = InitTenants
    /\ tenants_cache = EmptyDict
    /\ dialect = "postgresql"
    /\ last = NoOperation
    /\ calls = <<>>
    /\ history = <<>>

Next ==
    \/ \E tenant_id \in TenantIdsNamed : RefreshTenantDomains(tenant_id)
    \/ \E user_id \in Users, args \in ConnectArgs : ConnectCfCommand(user_id, args)

Spec == Init /\ [][Next]_vars

\* the stores the authorization service starts from: empty, or one tenant
\* that was deactivated
InitStores ==
    {<<>>} \cup {<<Tenant(1, "initech", "tokA", a, FALSE)>> : a \in AdminIds}

\* the authorization service: SUPER_ADMIN_ID unset, empty or set, over a
\* bot_config that holds a super admin or not
InitAuth ==
    /\ current_tenant_id = NoCurrentTenant
    /\ conversations = <<>>
    /\ super_admin_id \in {None, ""} \cup AdminIds
    /\ bot_config \in {EmptyDict}
                      \cup {[k \in {"super_admin_id"} |-> a] : a \in AdminIds}
    /\ tenants \in InitStores
    /\ tenants_cache = EmptyDict
    /\ dialect \in Dialects
    /\ last = NoOperation
    /\ calls = <<>>
    /\ history = <<>>

NextAuth ==
    \/ \E user_id \in Users : IsSuperAdmin(user_id)
    \/ \E user_id \in Users, tenant_id \in TenantIdArgs : IsTenantAdmin(user_id, tenant_id)
    \/ \E user_id \in Users, tenant_id \in TenantIdArgs : HasAccess(user_id, tenant_id)
    \/ \E user_id \in CallerArgs : GetTenants(user_id)
    \/ \E user_id \in Users, args \in AddTenantArgs : AddTenantCommand(user_id, args)

SpecAuth == InitAuth /\ [][NextAuth]_vars

\* first-time setup: SUPER_ADMIN_ID unset or empty and no super_admin_id row
InitBootstrap ==
    /\ InitAuth
    /\ ~Truthy(super_admin_id)
    /\ bot_config = EmptyDict

SpecBootstrap == InitBootstrap /\ [][NextAuth]_vars

\* the store the reading commands run over: one connected, active tenant
InitReadTenants == << Tenant(1, "acme", "tokA", "2", TRUE) >>

\* the reading commands between refreshes, on a database that holds no super
\* admin yet
InitRead ==
    /\ current_tenant_id = NoCurrentTenant
    /\ conversations = <<>>
    /\ super_admin_id = None
    /\ bot_config = EmptyDict
    /\ tenants = InitReadTenants
    /\ tenants_cache = EmptyDict
    /\ dialect = "postgresql"
    /\ last = NoOperation
    /\ calls = <<>>
    /\ history = <<>>

NextRead ==
    \/ \E tenant_id \in TenantIdsNamed : RefreshTenantDomains(tenant_id)
    \/ \E user_id \in Users : DomainsCommand(user_id)
    \/ \E user_id \in Users, args \in TenantInfoArgs : TenantInfoCommand(user_id, args)
    \/ \E user_id \in Users : StatusCommand(user_id)

SpecRead == InitRead /\ [][NextRead]_vars

\* is_super_admin called for several updates at once: SUPER_ADMIN_ID unset or
\* set, over a bot_config that holds a super admin or not
InitConcurrent ==
    /\ current_tenant_id = NoCurrentTenant
    /\ conversations = <<>>
    /\ super_admin_id \in {None, "1"}
    /\ bot_config \in {EmptyDict, [k \in {"super_admin_id"} |-> "2"]}
    /\ tenants = <<>>
    /\ tenants_cache = EmptyDict
    /\ dialect = "postgresql"
    /\ last = NoOperation
    /\ calls = EmptyDict
    /\ history = [fired |-> {}, writes |-> 0]

NextConcurrent ==
    \/ \E user_id \in Users, caller \in Callers : IsSuperAdminBegin(user_id, caller)
    \/ \E user_id \in Users : IsSuperAdminSelect(user_id)
    \/ \E user_id \in Users : IsSuperAdminMerge(user_id)
    \/ \E user_id \in Users : IsSuperAdminCommit(user_id)
    \/ \E user_id \in Users : IsSuperAdminAdopt(user_id)

SpecConcurrent == InitConcurrent /\ [][NextConcurrent]_vars

\* /add_tenant handled for several updates at once, on an empty store, with
\* SUPER_ADMIN_ID=1
InitCreate ==
    /\ current_tenant_id = NoCurrentTenant
    /\ conversations = <<>>
    /\ super_admin_id = "1"
    /\ bot_config = EmptyDict
    /\ tenants = <<>>
    /\ tenants_cache = EmptyDict
    /\ dialect = "postgresql"
    /\ last = NoOperation
    /\ calls = EmptyDict
    /\ history = <<>>

NextCreate ==
    \/ \E k \in InFlight, user_id \in Users, args \in AddTenantArgs :
          AddTenantBegin(k, user_id, args)
    \/ \E k \in InFlight : AddTenantSelect(k)
    \/ \E k \in InFlight : AddTenantCommit(k)

SpecCreate == InitCreate /\ [][NextCreate]_vars

\* one active tenant connected with an earlier token
InitInFlightTenants == << Tenant(1, "acme", "tok0", "2", TRUE) >>

\* refreshes and connects handled for several updates at once, with
\* SUPER_ADMIN_ID=1
InitInFlight ==
    /\ current_tenant_id = NoCurrentTenant
    /\ conversations = <<>>
    /\ super_admin_id = "1"
    /\ bot_config = EmptyDict
    /\ tenants = InitInFlightTenants
    /\ tenants_cache = EmptyDict
    /\ dialect = "postgresql"
    /\ last = NoOperation
    /\ calls = EmptyBag
    /\ history = [changed |-> {}]

NextInFlight ==
    \/ \E tenant_id \in TenantIds : RefreshBegin(tenant_id)
    \/ \E c \in BagToSet(calls) : RefreshGetTenant(c)
    \/ \E c \in BagToSet(calls) : RefreshFinish(c)
    \/ \E user_id \in Users, args \in ConnectArgs : ConnectBegin(user_id, args)
    \/ \E c \in BagToSet(calls) : ConnectCommit(c)
    \/ \E c \in BagToSet(calls) : ConnectInvalidate(c)

SpecInFlight == InitInFlight /\ [][NextInFlight]_vars

\* the two ways a tenant record is created, /add_tenant of the command bot
\* and the add-tenant conversation of the menu-driven bot, on an empty store
InitAddTenant ==
    /\ super_admin_id \in {None, "1"}
    /\ bot_config = EmptyDict
    /\ tenants = <<>>
    /\ tenants_cache = EmptyDict
    /\ dialect = "postgresql"
    /\ last = NoOperation
    /\ calls = <<>>
    /\ history = [u \in Users |-> 0]
    /\ current_tenant_id = NoCurrentTenant
    /\ conversations = [u \in Users |-> NoConversation]

NextAddTenant ==
    \/ \E user_id \in Users : AddTenantStart(user_id)
    \/ \E user_id \in Users, message \in NameTexts : HandleTenantName(user_id, message)
    \/ \E user_id \in Users, message \in DescriptionTexts : HandleTenantDescription(user_id, message)
    \/ \E user_id \in Users, message \in AdminTexts : HandleTenantAdmin(user_id, message)
    \/ \E user_id \in Users, cf_token \in Tokens : HandleCfToken(user_id, cf_token)
    \/ \E user_id \in Users : CancelConversation(user_id)
    \/ \E user_id \in Users, args \in AddTenantArgs : AddTenantCommand(user_id, args)

SpecAddTenant == InitAddTenant /\ [][NextAddTenant]_vars

\* the store /refresh runs over: a tenant of user 2, a tenant of the super
\* admin, and a deactivated tenant of user 2, all connected
InitRefreshTenants ==
    << Tenant(1, "acme", "tokA", "2", TRUE),
       Tenant(2, "globex", "tokA", "1", TRUE),
       Tenant(3, "initech", "tokA", "2", FALSE) >>

InitRefresh ==
    /\ super_admin_id = "1"
    /\ bot_config = EmptyDict
    /\ tenants = InitRefreshTenants
    /\ tenants_cache = EmptyDict
    /\ dialect = "postgresql"
    /\ last = NoOperation
    /\ calls = <<>>
    /\ history = <<>>
    /\ current_tenant_id = NoCurrentTenant
    /\ conversations = <<>>

NextRefresh ==
    \/ \E user_id \in Users : RefreshCommand(user_id)

SpecRefresh == InitRefresh /\ [][NextRefresh]_vars

\* every command of the bot in turn, over a store with one connected tenant
\* that /add_tenant and /connect_cf extend
InitFrame ==
    /\ super_admin_id = "1"
    /\ bot_config = EmptyDict
    /\ tenants = InitReadTenants
    /\ tenants_cache = EmptyDict
    /\ dialect = "postgresql"
    /\ last = NoOperation
    /\ calls = <<>>
    /\ history = <<>>
    /\ current_tenant_id = NoCurrentTenant
    /\ conversations = <<>>

NextFrame ==
    \/ \E tenant_id \in TenantIdsNamed : RefreshSmallAccount(tenant_id)
    \/ \E user_id \in Users, args \in ConnectArgs : ConnectCfCommand(user_id, args)
    \/ \E user_id \in Users, args \in {<<>>, <<"globex", "2">>} :
          AddTenantCommand(user_id, args)
    \/ \E user_id \in Users, tenant_id \in TenantIdArgs : HasAccess(user_id, tenant_id)
    \/ \E user_id \in CallerArgs : GetTenants(user_id)
    \/ \E user_id \in Users : DomainsCommand(user_id)
    \/ \E user_id \in Users, args \in TenantInfoArgs : TenantInfoCommand(user_id, args)
    \/ \E user_id \in Users : StatusCommand(user_id)

SpecFrame == InitFrame /\ [][NextFrame]_vars

\* /domains over the store of InitRefresh while the tenants are refreshed
NextDomains ==
    \/ \E tenant_id \in TenantIdsNamed : RefreshSmallAccount(tenant_id)
    \/ \E user_id \in Users : DomainsCommand(user_id)

SpecDomains == InitRefresh /\ [][NextDomains]_vars

\* The menu-driven bot with two tenants, each with an admin of its own, and
\* a super admin who is the third user.  Every user selects tenants; the
\* admin of the first tenant adds records.
InitMenuTenants ==
    << [Tenant(1, "acme", "tokA", "2", TRUE) EXCEPT !.is_active = ActiveText],
       [Tenant(2, "globex", "tokB", "1", TRUE) EXCEPT !.is_active = ActiveText] >>

RecordAdders == {u \in Users : str(u) = InitMenuTenants[1].admin_user_id}

InitMenu ==
    /\ super_admin_id = "3"
    /\ bot_config = EmptyDict
    /\ tenants = InitMenuTenants
    /\ tenants_cache = EmptyDict
    /\ dialect = "sqlite"
    /\ last = NoOperation
    /\ calls = <<>>
    /\ history = <<>>
    /\ current_tenant_id = NoCurrentTenant
    /\ conversations = [u \in Users |-> NoConversation]

NextMenu ==
    \/ \E u \in Users : StartCommand(u)
    \/ \E u \in Users, i \in TenantIdsNamed : SetTenant(u, i)
    \/ \E u \in RecordAdders, z \in ZoneIdArgs : AddRecordStart(u, z)
    \/ \E u \in RecordAdders, t \in RecordTypes : HandleRecordType(u, t)
    \/ \E u \in RecordAdders, m \in RecordNameTexts : HandleRecordName(u, m)
    \/ \E u \in RecordAdders, m \in RecordContentTexts :
           HandleRecordContent(u, m)
    \/ \E u \in RecordAdders, m \in PriorityTexts : HandleRecordPriority(u, m)
    \/ \E u \in RecordAdders, m \in TtlTexts : HandleRecordTtl(u, m)
    \/ \E u \in RecordAdders : CancelConversation(u)

SpecMenu == InitMenu /\ [][NextMenu]_vars

-----------------------------------------------------------------------------
(* Properties of the tenant cache, checked under Spec                      *)

Refreshed == last.op = "refresh_tenant_domains"

Committed == Refreshed /\ last.outcome = "committed"

Connected == last.op = "connect_cf_command" /\ last.outcome = "connected"

\* the index of a list by a key: each key maps to the last element carrying it
IndexBy(list, key(_)) ==
    [k \in {key(list[i]) : i \in DOMAIN list} |->
        list[CHOOSE i \in DOMAIN list :
                /\ key(list[i]) = k
                /\ \A j \in DOMAIN list : key(list[j]) = k => j <= i]]

IdOf(x) == x.id

NameOf(x) == x.name

\* no two zones of the list share an id or a name
DistinctKeys(list) ==
    \A i, j \in DOMAIN list :
        (list[i].id = list[j].id \/ list[i].name = list[j].name) => i = j

\* C1: when the zone listing of refresh_tenant_domains(T) fails, the call
\* raises and the cache is exactly what it was before the call
C1_CacheUntouchedOnListingFailure ==
    [][ (last'.op = "refresh_tenant_domains" /\ last'.zones.status = "raised")
        => (last'.outcome = "raised" /\ tenants_cache' = tenants_cache) ]_vars

\* a refresh failed on a tenant whose entry was populated, and the entry is there
C1_Witness ==
    /\ Refreshed /\ last.outcome = "raised" /\ last.had_entry
    /\ last.tenant_id \in DOMAIN tenants_cache

\* C6 as stated: after a successful refresh every id in zones has its name in
\* domains pointing at the same zone object and vice versa, and the two
\* mappings have equal cardinality
C6_IndicesMirrorEachOther ==
    Committed =>
        LET e == tenants_cache[last.tenant_id] IN
        /\ Cardinality(DOMAIN e.zones) = Cardinality(DOMAIN e.domains)
        /\ \A id \in DOMAIN e.zones :
              /\ e.zones[id].name \in DOMAIN e.domains
              /\ e.domains[e.zones[id].name] = e.zones[id]
        /\ \A name \in DOMAIN e.domains :
              /\ e.domains[name].id \in DOMAIN e.zones
              /\ e.zones[e.domains[name].id] = e.domains[name]

\* C6 as amended: after a successful refresh both indices are built from the
\* one zone list: zones is keyed by exactly the ids of the list and domains by
\* exactly its names, each key holding the last listed zone that carries it;
\* when no two listed zones share an id or a name the indices mirror each
\* other and have equal cardinality
C6_IndicesBuiltFromOneList ==
    Committed =>
        LET e == tenants_cache[last.tenant_id]
            zones_list == last.zones.result
        IN
        /\ e.zones = IndexBy(zones_list, IdOf)
        /\ e.domains = IndexBy(zones_list, NameOf)
        /\ DistinctKeys(zones_list) =>
              /\ Cardinality(DOMAIN e.zones) = Cardinality(DOMAIN e.domains)
              /\ Cardinality(DOMAIN e.zones) = Len(zones_list)
              /\ \A id \in DOMAIN e.zones :
                    /\ e.zones[id].name \in DOMAIN e.domains
                    /\ e.domains[e.zones[id].name] = e.zones[id]
              /\ \A name \in DOMAIN e.domains :
                    /\ e.domains[name].id \in DOMAIN e.zones
                    /\ e.zones[e.domains[name].id] = e.domains[name]

\* a refresh committed two zones that share neither id nor name
C6_Witness ==
    /\ Committed
    /\ Len(last.zones.result) = 2
    /\ DistinctKeys(last.zones.result)
    /\ Cardinality(DOMAIN tenants_cache[last.tenant_id].domains) = 2

\* C7: when the zone listing succeeds and the tunnel listing fails, the
\* refresh does not raise and commits an entry whose zones and domains are
\* those of the zone list and whose tunnels mapping is empty
C7_TunnelFailureDegradesToEmpty ==
    (Refreshed /\ last.zones.status = "ok" /\ last.tunnels.status = "raised") =>
        /\ last.outcome = "committed"
        /\ last.tenant_id \in DOMAIN tenants_cache
        /\ LET e == tenants_cache[last.tenant_id] IN
           /\ e.tunnels = EmptyDict
           /\ DOMAIN e.zones = {z.id : z \in DictValues(last.zones.result)}
           /\ DOMAIN e.domains = {z.name : z \in DictValues(last.zones.result)}
           /\ DictValues(e.zones) \subseteq DictValues(last.zones.result)
           /\ DictValues(e.domains) \subseteq DictValues(last.zones.result)

\* the tunnel listing failed after a listing of at least one zone
C7_Witness ==
    /\ Committed /\ last.tunnels.status = "raised"
    /\ last.zones.result # <<>>
    /\ tenants_cache[last.tenant_id].tunnels = EmptyDict

\* C8: once connect_cf_command has committed a credential for T the cache
\* holds no entry for T, whether one existed before or not
C8_ConnectInvalidates ==
    Connected => last.tenant_id \notin DOMAIN tenants_cache

\* a credential was committed for a tenant that had an entry
C8_Witness ==
    Connected /\ last.deleted /\ last.tenant_id \notin DOMAIN tenants_cache

\* C9 as stated: refresh_tenant_domains(T) is a no-op unless T resolves to an
\* active tenant: no gateway call, no cache change, nothing raised
C9_NoOpUnlessActiveTenant ==
    [][ (/\ last'.op = "refresh_tenant_domains"
         /\ ~(/\ last'.tenant_id \in TenantIds
              /\ tenants[last'.tenant_id].is_active))
        => (/\ last'.outcome = "returned"
            /\ last'.zones.status = "not_called"
            /\ tenants_cache' = tenants_cache) ]_vars

\* C9 as amended: refresh_tenant_domains(T) is a no-op when no tenant record
\* has the id T: no gateway call, no cache change, nothing raised
C9_NoOpOnUnknownTenant ==
    [][ (last'.op = "refresh_tenant_domains" /\ last'.tenant_id \notin TenantIds)
        => (/\ last'.outcome = "returned"
            /\ last'.zones.status = "not_called"
            /\ last'.accounts.status = "not_called"
            /\ last'.tunnels.status = "not_called"
            /\ tenants_cache' = tenants_cache) ]_vars

\* an unknown tenant was refreshed while the cache held entries
C9_Witness ==
    /\ Refreshed /\ last.tenant_id \notin TenantIds
    /\ last.outcome = "returned"
    /\ tenants_cache # EmptyDict

\* the account the entry records: that of the first zone, else the first account
AccountAnswered ==
    IF last.zones.result # <<>> /\ last.zones.result[1].account # None
    THEN last.zones.result[1].account
    ELSE IF last.accounts.status = "ok" /\ last.accounts.result # <<>>
         THEN last.accounts.result[1]
         ELSE None

\* C10: a successful refresh replaces the whole entry: the tenant snapshot,
\* domains, zones, tunnels and account_id all come from this refresh, and the
\* tunnels are empty when this refresh's tunnel listing was not made or failed
C10_EntryIsWhollyNew ==
    Committed =>
        tenants_cache[last.tenant_id] =
            [tenant |-> tenants[last.tenant_id],
             domains |-> IndexBy(last.zones.result, NameOf),
             zones |-> IndexBy(last.zones.result, IdOf),
             tunnels |-> IF last.tunnels.status = "ok"
                         THEN IndexBy(last.tunnels.result, IdOf)
                         ELSE EmptyDict,
             account_id |-> AccountAnswered]

\* an entry was replaced by a refresh whose tunnel listing failed
C10_Witness ==
    /\ Committed /\ last.had_entry
    /\ last.tunnels.status = "raised"
    /\ tenants_cache[last.tenant_id].tunnels = EmptyDict

\* C11: after a refresh of a tenant that succeeds against a gateway returning
\* zone list Z and tunnel list U, the entry has domains = {z.name -> z},
\* zones = {z.id -> z} and tunnels = {u.id -> u}, the last listed object
\* winning on a duplicate key, and account_id is the account of the first
\* zone when that zone exposes one
C11_EntryIndexesTheListings ==
    (Committed /\ last.tunnels.status = "ok") =>
        LET e == tenants_cache[last.tenant_id]
            Z == last.zones.result
            U == last.tunnels.result
        IN
        /\ DOMAIN e.domains = {Z[i].name : i \in DOMAIN Z}
        /\ DOMAIN e.zones = {Z[i].id : i \in DOMAIN Z}
        /\ DOMAIN e.tunnels = {U[i].id : i \in DOMAIN U}
        /\ \A i \in DOMAIN Z :
              /\ (\A j \in DOMAIN Z : Z[j].name = Z[i].name => j <= i)
                    => e.domains[Z[i].name] = Z[i]
              /\ (\A j \in DOMAIN Z : Z[j].id = Z[i].id => j <= i)
                    => e.zones[Z[i].id] = Z[i]
        /\ \A i \in DOMAIN U : e.tunnels[U[i].id] = U[i]
        /\ (Z # <<>> /\ Z[1].account # None) => e.account_id = Z[1].account

\* the tenant created by /add_tenant got its credential by /connect_cf and was
\* refreshed: two zones answering to one id and a tunnel were listed
C11_Witness ==
    /\ Committed /\ last.tenant_id = 1
    /\ tenants[1].cloudflare_token # ""
    /\ last.tunnels.status = "ok" /\ last.tunnels.result # <<>>
    /\ Len(last.zones.result) = 2
    /\ last.zones.result[1].id = last.zones.result[2].id
    /\ tenants_cache[1].account_id = "acc1"

\* the first listed zone exposes an account
FirstZoneHasAccount ==
    last.zones.result # <<>> /\ last.zones.result[1].account # None

\* the accounts listing answered with at least one account
AccountsListed ==
    last.accounts.status = "ok" /\ last.accounts.result # <<>>

\* C12: account_id is the account of the first returned zone when it exposes
\* one, otherwise the first account of the accounts listing, otherwise absent;
\* when both sources fail the refresh still commits, no tunnel listing is
\* made, and the entry has no account_id and an empty tunnels mapping
C12_AccountResolution ==
    (Refreshed /\ last.zones.status = "ok") =>
        /\ last.outcome = "committed"
        /\ LET e == tenants_cache[last.tenant_id] IN
           /\ FirstZoneHasAccount =>
                 /\ e.account_id = last.zones.result[1].account
                 /\ last.accounts.status = "not_called"
           /\ (~FirstZoneHasAccount /\ AccountsListed) =>
                 e.account_id = last.accounts.result[1]
           /\ (~FirstZoneHasAccount /\ ~AccountsListed) =>
                 /\ last.accounts.status \in {"raised", "ok"}
                 /\ e.account_id = None
                 /\ last.tunnels.status = "not_called"
                 /\ e.tunnels = EmptyDict
           /\ e.account_id # None => last.tunnels.status # "not_called"

\* no zone exposed an account and the accounts listing failed
C12_Witness ==
    /\ Committed /\ last.zones.result # <<>>
    /\ ~FirstZoneHasAccount /\ last.accounts.status = "raised"
    /\ tenants_cache[last.tenant_id].account_id = None
    /\ tenants_cache[last.tenant_id].tunnels = EmptyDict

\* the commands that only read the cache
ReadingCommands == {"domains_command", "tenant_info_command", "status_command"}

\* C13, checked under SpecRead: a command that only reads the cache makes no
\* gateway call and leaves every cache entry as it was, also when the entry
\* of the tenant it shows is absent
C13_ReadsNeverRefresh ==
    [][ last'.op \in ReadingCommands =>
           (last'.gateway = <<>> /\ tenants_cache' = tenants_cache) ]_vars

\* /domains showed a tenant whose data is not loaded, and the cache is still empty
C13_Witness ==
    /\ last.op = "domains_command"
    /\ \E line \in last.reply : ~line.loaded
    /\ tenants_cache = EmptyDict

-----------------------------------------------------------------------------
(* Properties of the authorization service                                 *)

\* no super admin in memory and none in bot_config
Unconfigured ==
    ~Truthy(super_admin_id) /\ "super_admin_id" \notin DOMAIN bot_config

\* the super admin is user U, in memory mem and in the configuration cfg
Owns(U, mem, cfg) ==
    /\ mem = str(U)
    /\ cfg = [k \in {"super_admin_id"} |-> str(U)]

\* C2, checked under SpecBootstrap: starting with no super admin configured,
\* the first caller of is_super_admin receives true and is recorded in memory
\* and in bot_config; from then on no operation changes either, the owner
\* receives true and every distinct caller receives false
C2_BootstrapSingleOwner ==
    [][ /\ (Unconfigured /\ last'.op = "is_super_admin") =>
              /\ last'.ret = TRUE
              /\ Owns(last'.user_id, super_admin_id', bot_config')
        /\ \A U \in Users :
              Owns(U, super_admin_id, bot_config) =>
                 /\ Owns(U, super_admin_id', bot_config')
                 /\ last'.op = "is_super_admin" => (last'.ret = (last'.user_id = U))
        /\ \/ Unconfigured'
           \/ \E U \in Users : Owns(U, super_admin_id', bot_config') ]_vars

\* a second, distinct caller was refused and the first caller still owns the bot
C2_Witness ==
    /\ last.op = "is_super_admin" /\ last.ret = FALSE
    /\ \E U \in Users : U # last.user_id /\ Owns(U, super_admin_id, bot_config)

\* what the contract of is_tenant_admin asks for
TenantAdminContract(user_id, tenant_id) ==
    IF tenant_id # Omitted
    THEN /\ tenant_id \in TenantIds
         /\ tenants[tenant_id].is_active
         /\ tenants[tenant_id].admin_user_id = str(user_id)
    ELSE \E i \in TenantIds :
            tenants[i].is_active /\ tenants[i].admin_user_id = str(user_id)

\* C3, checked under SpecAuth: is_tenant_admin(caller, T) is true iff an
\* active tenant with id T has the caller as admin; with the tenant id
\* omitted, iff at least one active tenant has the caller as admin
C3_TenantAdminIffActiveAdmin ==
    last.op = "is_tenant_admin" =>
        (last.ret <=> TenantAdminContract(last.user_id, last.tenant_id))

\* C4, checked under SpecAuth: for the resolved super admin U and any tenant
\* id T, has_access(U, T) is true
C4_AccessDominance ==
    (last.op = "has_access" /\ super_admin_id = str(last.user_id)) =>
        last.ret = TRUE

\* the super admin was granted access to a tenant administered by someone else
C4_Witness ==
    /\ last.op = "has_access" /\ last.ret = TRUE
    /\ super_admin_id = str(last.user_id)
    /\ last.tenant_id \in TenantIds
    /\ tenants[last.tenant_id].admin_user_id # str(last.user_id)

\* C5, checked under SpecAuth: an inactive tenant T with admin A is invisible:
\* is_tenant_admin(A, T.id) is false, is_tenant_admin(A) is true only when A
\* administers an active tenant, and get_tenants never returns T
C5_InactiveInvisible ==
    /\ (/\ last.op = "is_tenant_admin"
        /\ last.tenant_id \in TenantIds
        /\ ~tenants[last.tenant_id].is_active) => last.ret = FALSE
    /\ (last.op = "is_tenant_admin" /\ last.tenant_id = Omitted /\ last.ret) =>
          \E i \in TenantIds :
             tenants[i].is_active /\ tenants[i].admin_user_id = str(last.user_id)
    /\ last.op = "get_tenants" =>
          \A i \in DOMAIN last.ret : last.ret[i].is_active

\* the admin of an inactive and of an active tenant listed their tenants and
\* got the active one only
C5_Witness ==
    /\ last.op = "get_tenants" /\ last.user_id # 0
    /\ \E i, j \in TenantIds :
          /\ ~tenants[i].is_active /\ tenants[i].admin_user_id = str(last.user_id)
          /\ tenants[j].is_active /\ tenants[j].admin_user_id = str(last.user_id)
    /\ Len(last.ret) = 1

\* C15, checked under SpecAuth: for a caller who is not super admin,
\* has_access(caller, T) equals is_tenant_admin(caller, T) for every tenant id
\* T and for the id omitted, and a check for a given T never degrades to the
\* any-tenant check: it is true only when T is a tenant the caller administers
C15_AccessDelegatesToTenantAdmin ==
    (last.op = "has_access" /\ super_admin_id # str(last.user_id)) =>
        /\ last.ret = is_tenant_admin(last.user_id, last.tenant_id)
        /\ (last.tenant_id # Omitted /\ last.ret) =>
              /\ last.tenant_id \in TenantIds
              /\ tenants[last.tenant_id].admin_user_id = str(last.user_id)

\* the active tenants, as a set of rows
ActiveTenants == {tenants[i] : i \in {j \in TenantIds : tenants[j].is_active}}

\* C16, checked under SpecAuth: get_tenants(caller) returns exactly the active
\* tenants whose admin is the caller when the caller is not super admin, and
\* exactly all active tenants when the caller is super admin or no caller is
\* given
C16_GetTenantsExact ==
    last.op = "get_tenants" =>
        LET rows == {last.ret[i] : i \in DOMAIN last.ret} IN
        /\ Cardinality(rows) = Len(last.ret)
        /\ rows = IF last.user_id # 0 /\ super_admin_id # str(last.user_id)
                  THEN {t \in ActiveTenants : t.admin_user_id = str(last.user_id)}
                  ELSE ActiveTenants

\* a tenant admin who is not super admin listed their tenants and got one of
\* the two active ones
C16_Witness ==
    /\ last.op = "get_tenants" /\ last.user_id # 0
    /\ super_admin_id # str(last.user_id)
    /\ Len(last.ret) = 1
    /\ Cardinality(ActiveTenants) = 2

-----------------------------------------------------------------------------
(* Properties of is_super_admin under interleaving, checked under          *)
(* SpecConcurrent                                                          *)

\* C14: the bootstrap side effect of is_super_admin fires at most once per
\* process lifetime under every interleaving of calls by distinct callers:
\* super_admin_id is written to bot_config at most once and at most one
\* caller is told true by the bootstrap path
C14_BootstrapFiresAtMostOnce ==
    history.writes <= 1 /\ Cardinality(history.fired) <= 1

\* C18: when bot_config holds super_admin_id and a call reads it, the call
\* adopts the stored value in memory, returns true only for the caller equal
\* to it and does not write bot_config; a call that finds the in-memory value
\* known returns the comparison with it without reading or writing bot_config
C18_AdoptsStoredValue ==
    [][ last'.op = "is_super_admin" =>
          /\ (last'.step = "select" /\ "super_admin_id" \in DOMAIN bot_config) =>
                /\ super_admin_id' = bot_config["super_admin_id"]
                /\ last'.returned
                /\ last'.ret = (str(last'.user_id) = bot_config["super_admin_id"])
                /\ bot_config' = bot_config
          /\ (last'.step = "begin" /\ Truthy(super_admin_id)) =>
                /\ last'.returned
                /\ last'.ret = (str(last'.user_id) = super_admin_id)
                /\ last'.sql = <<>>
                /\ bot_config' = bot_config
                /\ super_admin_id' = super_admin_id ]_vars

\* after a restart the stored super admin was adopted and another caller refused
C18_Witness ==
    /\ last.op = "is_super_admin" /\ last.step = "select" /\ last.returned
    /\ last.ret = FALSE
    /\ super_admin_id = "2" /\ bot_config["super_admin_id"] = "2"
    /\ history.writes = 0

-----------------------------------------------------------------------------
(* Properties of tenant creation under interleaving, checked under         *)
(* SpecCreate                                                              *)

\* C17: after any sequence and interleaving of tenant-creation actions no two
\* active tenants share a name
C17_ActiveNamesUnique ==
    \A i, j \in TenantIds :
        (/\ tenants[i].is_active /\ tenants[j].is_active
         /\ tenants[i].name = tenants[j].name) => i = j

-----------------------------------------------------------------------------
(* Properties of the whole command set, checked under SpecFrame            *)

\* the step leaves the entry of the tenant, or its absence, as it was
SameEntry(T) ==
    IF T \in DOMAIN tenants_cache
    THEN T \in DOMAIN tenants_cache' /\ tenants_cache'[T] = tenants_cache[T]
    ELSE T \notin DOMAIN tenants_cache'

\* C22: the entry of a tenant changes only by a successful refresh of that
\* tenant or by the invalidation of that tenant; a refresh or an invalidation
\* of another tenant, a refresh that fails or finds no tenant, an
\* authorization check, the creation of a tenant and the listings leave it as
\* it was
C22_EntryChangesOnlyByRefreshOrInvalidation ==
    [][\A T \in TenantIdsNamed :
          \/ SameEntry(T)
          \/ /\ last'.op = "refresh_tenant_domains"
             /\ last'.tenant_id = T /\ last'.outcome = "committed"
          \/ /\ last'.op = "connect_cf_command"
             /\ last'.tenant_id = T /\ last'.outcome = "connected"]_vars

\* a tenant created by /add_tenant and then connected is refreshed while the
\* first tenant keeps the entry it has
C22_Witness ==
    /\ last.op = "refresh_tenant_domains" /\ last.outcome = "committed"
    /\ last.tenant_id # 1
    /\ 1 \in DOMAIN tenants_cache
    /\ tenants_cache[1].zones # EmptyDict

-----------------------------------------------------------------------------
(* Properties of /refresh, checked under SpecRefresh                       *)

\* the active tenants the caller is super admin or admin of
Accessible(user_id) ==
    {T \in TenantIds :
        /\ tenants[T].is_active = TRUE
        /\ \/ str(user_id) = super_admin_id
           \/ str(user_id) = tenants[T].admin_user_id}

\* C24: refresh_command attempts the refresh of every tenant accessible to
\* the caller, whether or not an earlier one raised, and of no other tenant;
\* a tenant whose refresh raised keeps the entry it had; the count reported
\* is the number of tenants whose refresh did not raise, at most the number
\* of accessible tenants
C24_RefreshesIndependently ==
    [][last'.op = "refresh_command" =>
          /\ last'.attempted = Accessible(last'.user_id)
          /\ last'.raised \subseteq last'.attempted
          /\ \A T \in last'.raised : SameEntry(T)
          /\ \A T \in TenantIds \ last'.attempted : SameEntry(T)
          /\ \A T \in last'.attempted \ last'.raised : T \in DOMAIN tenants_cache'
          /\ last'.refreshed_count = Cardinality(last'.attempted \ last'.raised)
          /\ last'.refreshed_count <= Cardinality(Accessible(last'.user_id))]_vars

\* the refresh of the first tenant raised and left its entry in place, and
\* the refresh of a later tenant was made and counted
C24_Witness ==
    /\ last.op = "refresh_command"
    /\ \E T \in last.raised, U \in last.attempted \ last.raised :
          T < U /\ T \in DOMAIN tenants_cache
    /\ last.refreshed_count = 1

-----------------------------------------------------------------------------
(* Properties of refreshes and connects in flight, checked under            *)
(* SpecInFlight                                                             *)

Finished ==
    /\ last.op = "refresh_tenant_domains"
    /\ last.step = "finish"
    /\ last.outcome = "committed"

\* C19: once connect_cf_command has changed a tenant's credential and removed
\* its entry, any entry present for the tenant was built by a refresh that
\* read the new credential, also when a refresh that started before the
\* change was in flight while the credential was committed and the entry
\* removed
C19_EntryReadTheNewCredential ==
    \A T \in history.changed :
        T \in DOMAIN tenants_cache =>
            tenants_cache[T].tenant.cloudflare_token = tenants[T].cloudflare_token

\* C20: when refreshes of the same tenant interleave, every step leaves the
\* tenant's entry absent, or as it was, or equal to the complete result of the
\* one refresh that finishes in that step: its tenant snapshot and the
\* domains, zones, tunnels and account_id of its own listings
C20_LastWriteWins ==
    [][\A T \in TenantIds :
         \/ T \notin DOMAIN tenants_cache'
         \/ T \in DOMAIN tenants_cache /\ tenants_cache'[T] = tenants_cache[T]
         \/ /\ Finished' /\ last'.tenant_id = T
            /\ tenants_cache'[T] =
                  [tenant |-> last'.tenant,
                   domains |-> IndexBy(last'.zones.result, NameOf),
                   zones |-> IndexBy(last'.zones.result, IdOf),
                   tunnels |-> IF last'.tunnels.status = "ok"
                               THEN IndexBy(last'.tunnels.result, IdOf)
                               ELSE EmptyDict,
                   account_id |-> AccountAnswered']]_vars

\* a refresh replaces the entry of the tenant while another refresh of the
\* same tenant, which read a different credential, is still listing
C20_Witness ==
    /\ Finished /\ last.had_entry
    /\ last.zones.result # <<>>
    /\ \E c \in BagToSet(calls) :
          /\ c.op = "refresh" /\ c.pc = "listing"
          /\ c.tenant_id = last.tenant_id
          /\ c.tenant # last.tenant

-----------------------------------------------------------------------------
(* Properties of tenant creation, checked under SpecAddTenant              *)

\* C21: a tenant record is inserted only by an action of a caller for whom
\* is_super_admin is true; an add-tenant action of any other caller leaves the
\* tenant store unchanged
C21_OnlySuperAdminInserts ==
    [][tenants' # tenants =>
          is_super_admin(last'.user_id, super_admin_id', bot_config').ret]_vars

\* the conversation of the super admin inserted a tenant while another user
\* had asked for one and got no conversation
C21_Witness ==
    /\ last.op = "handle_cf_token" /\ last.inserted
    /\ \E u \in Users : str(u) # super_admin_id /\ In(u, END)
    /\ Len(tenants) = MaxTenants

\* C28: when handle_cf_token reports an invalid token and stays in
\* WAITING_CF_TOKEN that step inserted no tenant record, and a conversation
\* that reaches END has created exactly one tenant
C28_InvalidTokenInsertsNothing ==
    last.op = "handle_cf_token" =>
        /\ last.reply = "invalid_token" => ~last.inserted
        /\ last.ret = END => history[last.user_id] = 1

-----------------------------------------------------------------------------
(* Properties of the menu-driven bot, checked under SpecMenu               *)

\* C25: whenever current_tenant_id is set, the cache holds an entry for that
\* tenant: a tenant becomes current only together with a successful refresh
\* of it
C25_CurrentTenantIsCached ==
    current_tenant_id # NoCurrentTenant =>
        current_tenant_id \in DOMAIN tenants_cache

\* the caller is the super admin or the admin of the active tenant
MayUse(user_id, tenant_id) ==
    \/ str(user_id) = super_admin_id
    \/ \E i \in TenantIds :
          /\ i = tenant_id
          /\ tenants[i].admin_user_id = str(user_id)
          /\ tenants[i].is_active = ActiveText

\* C26: a record is created with the credential of a tenant only on behalf
\* of a caller who has access to that tenant when the creation is sent, also
\* when another user selected a tenant after the caller started to add the
\* record
C26_CreatedOnlyWithAccess ==
    (last.op = "handle_record_ttl" /\ last.reply = "created") =>
        MayUse(last.user_id, last.tenant_id)

\* C29: once WAITING_RECORD_TTL received a valid TTL the conversation has
\* ended and its data is cleared; only an invalid TTL keeps it waiting
C29_ValidTtlEndsConversation ==
    (last.op = "handle_record_ttl" /\ record_ttl(last.message).valid) =>
        conversations[last.user_id] = NoConversation

\* 'auto' in any mix of capitals, blanks around it set aside
IsAuto(message) ==
    LET t == strip(message) IN
    /\ Len(t) = 4
    /\ t[1] \in {"a", "A"} /\ t[2] \in {"u", "U"}
    /\ t[3] \in {"t", "T"} /\ t[4] \in {"o", "O"}

\* C30: the TTL sent with the creation is 1 exactly when the message is
\* 'auto' in any mix of capitals, and the number typed raised to 120 when it
\* is below otherwise
C30_TtlSent ==
    (last.op = "handle_record_ttl" /\ last.credential # "") =>
        LET n == int_of(strip(last.message)) IN
        /\ last.ttl = 1 <=> IsAuto(last.message)
        /\ ~IsAuto(last.message) =>
               last.ttl = IF n < 120 THEN 120 ELSE n

\* a creation was sent for a number below 120, a negative one included
C30_Witness ==
    /\ last.op = "handle_record_ttl" /\ last.credential # ""
    /\ ~IsAuto(last.message)
    /\ int_of(strip(last.message)) < 0
    /\ last.ttl = 120

-----------------------------------------------------------------------------
(* Properties of /domains, checked under SpecDomains                       *)

\* the active tenants whose admin is the user
OwnTenants(user_id) ==
    {i \in TenantIds : /\ tenants[i].admin_user_id = str(user_id)
                       /\ tenants[i].is_active = TRUE}

\* C27: for a caller who is not super admin the reply of domains_command is
\* the one the cache gives with every entry removed but those of the active
\* tenants whose admin is the caller
C27_ReplyReadsOwnEntriesOnly ==
    (/\ last.op = "domains_command"
     /\ ~is_super_admin(last.user_id, super_admin_id, bot_config).ret) =>
        LET own == OwnTenants(last.user_id)
            entries == [i \in own \cap DOMAIN tenants_cache |-> tenants_cache[i]]
        IN last.reply = {domains_of(entries, tenants[i]) : i \in own}

\* a tenant admin got the domains of a tenant of theirs while the cache held
\* domains of a tenant of somebody else
C27_Witness ==
    /\ last.op = "domains_command"
    /\ ~is_super_admin(last.user_id, super_admin_id, bot_config).ret
    /\ \E i \in OwnTenants(last.user_id) :
          i \in DOMAIN tenants_cache /\ DOMAIN tenants_cache[i].domains # {}
    /\ \E i \in DOMAIN tenants_cache :
          i \notin OwnTenants(last.user_id) /\ DOMAIN tenants_cache[i].domains # {}

====
